---- MODULE Spec2Model ----
(***************************************************************************)
(* Model of backend/src/executors/claude.rs: the resolution of the Claude  *)
(* Code command line, the plan-mode watchkill wrapper script and the       *)
(* launch of the child process with its fallback to npx.                   *)
(*                                                                         *)
(* Text is modelled by TLA+ strings, which TLC treats as sequences of      *)
(* characters (Len, \o and SubSeq apply to them), so that the substring    *)
(* tests of the code are computed on the command text itself.              *)
(* Option<T> is modelled by a sequence of length at most one.              *)
(***************************************************************************)
EXTENDS Integers, Sequences, FiniteSets, TLC

----------------------------------------------------------------------------
(* Bounds of the model *)

MaxLaunches == 2
MaxLines == 3
MaxLogLines == 3
MaxCalls == 3
MaxResolverCalls == 2
MaxEnvChanges == 1

----------------------------------------------------------------------------
(* Option and text helpers *)

None == <<>>
Some(x) == <<x>>

\* str::contains
Contains(s, w) ==
    \E i \in 1..(Len(s) - Len(w) + 1) : SubSeq(s, i, i + Len(w) - 1) = w

StartsWith(s, w) == Len(w) <= Len(s) /\ SubSeq(s, 1, Len(w)) = w

EndsWith(s, w) == Len(w) <= Len(s) /\ SubSeq(s, Len(s) - Len(w) + 1, Len(s)) = w

IsWhitespace(c) == c \in {" ", "\n", "\t", "\r"}

\* str::trim
Trim(s) ==
    LET n == Len(s)
        ws(i) == IsWhitespace(SubSeq(s, i, i))
    IN  IF \A i \in 1..n : ws(i) THEN ""
        ELSE LET lo == CHOOSE i \in 1..n : ~ws(i) /\ \A j \in 1..(i - 1) : ws(j)
                 back == CHOOSE k \in 1..n :
                             ~ws(n + 1 - k) /\ \A j \in 1..(k - 1) : ws(n + 1 - j)
             IN  SubSeq(s, lo, n + 1 - back)

\* first position of w in s, 0 when s does not contain w
IndexOf(s, w) ==
    LET hits == {i \in 1..(Len(s) - Len(w) + 1) : SubSeq(s, i, i + Len(w) - 1) = w}
    IN  IF hits = {} THEN 0 ELSE CHOOSE i \in hits : \A j \in hits : i <= j

----------------------------------------------------------------------------
(* serde_json::Value, as far as the configuration file needs it *)

JStr(s) == [t |-> "string", s |-> s]
JNum(n) == [t |-> "number", n |-> n]
JArr(a) == [t |-> "array", a |-> a]
JObj(o) == [t |-> "object", o |-> o]

\* Value::get with a string key
JGet(v, key) ==
    IF v.t = "object" /\ key \in DOMAIN v.o THEN Some(v.o[key]) ELSE None

\* Value::as_str
JAsStr(v) == IF v.t = "string" THEN Some(v.s) ELSE None

----------------------------------------------------------------------------
(* Command construction *)

NPX_BASE == "npx -y @anthropic-ai/claude-code@latest"

claude_plan_stop_indicator ==
    "Claude requested permissions to use exit_plan_mode, but you haven't granted it yet"

\* faulty variant: plan mode adds its permission flag to the default flags
build_claude_command_adds_plan_flag(base_command, use_plan_mode) ==
    IF use_plan_mode
    THEN base_command
         \o " -p --dangerously-skip-permissions --permission-mode=plan --verbose --output-format=stream-json"
    ELSE base_command \o " -p --dangerously-skip-permissions --verbose --output-format=stream-json"

build_claude_command(base_command, use_plan_mode) ==
    IF use_plan_mode
    THEN base_command \o " -p --permission-mode=plan --verbose --output-format=stream-json"
    ELSE base_command \o " -p --dangerously-skip-permissions --verbose --output-format=stream-json"

create_watchkill_script(command) ==
    "#!/usr/bin/env bash\nset -euo pipefail\n\nword=\""
    \o claude_plan_stop_indicator
    \o "\"\ncommand=\""
    \o command
    \o "\"\n\nexit_code=0\nwhile IFS= read -r line; do\n    printf '%s\\n' \"$line\"\n    if [[ $line == *\"$word\"* ]]; then\n        exit 0\n    fi\ndone < <($command <&0 2>&1)\n\nexit_code=${PIPESTATUS[0]}\nexit \"$exit_code\"\n"

ResumeFlag(session_id) == " --resume=" \o session_id

----------------------------------------------------------------------------
(* The environment the resolver looks at *)

HOME == "/home/u"

\* ~/.claude.json as the resolver finds it
NoHomeDir      == [home |-> None, file |-> None]
NoConfigFile   == [home |-> Some(HOME), file |-> None]
BadJsonConfig  == [home |-> Some(HOME), file |-> Some([parsed |-> None])]
NotAnObject    == [home |-> Some(HOME), file |-> Some([parsed |-> Some(JArr(<<JStr("/cfg/bin/claude")>>))])]
NoPathField    == [home |-> Some(HOME), file |-> Some([parsed |-> Some(JObj([theme |-> JStr("dark")]))])]
NonStringPath  == [home |-> Some(HOME), file |-> Some([parsed |-> Some(JObj([claudeCodePath |-> JNum(1)]))])]
ConfiguredPath == [home |-> Some(HOME), file |-> Some([parsed |-> Some(JObj([claudeCodePath |-> JStr("/cfg/bin/claude")]))])]

Configs == {NoHomeDir, NoConfigFile, BadJsonConfig, NotAnObject, NoPathField,
            NonStringPath, ConfiguredPath}

\* outcome of running "which claude-code 2>/dev/null || where claude-code 2>NUL || echo"
WhichCannotRun == [ran |-> FALSE, success |-> FALSE, stdout |-> ""]
WhichFailed    == [ran |-> TRUE, success |-> FALSE, stdout |-> ""]
WhichEmpty     == [ran |-> TRUE, success |-> TRUE, stdout |-> "\n"]
WhichNotFound  == [ran |-> TRUE, success |-> TRUE, stdout |-> "claude-code not found\n"]
WhichFound     == [ran |-> TRUE, success |-> TRUE, stdout |-> "/opt/cc/bin/claude-code\n"]

WhichOutcomes == {WhichCannotRun, WhichFailed, WhichEmpty, WhichNotFound, WhichFound}

common_paths == <<"/usr/local/bin/claude-code", "/usr/bin/claude-code",
                  "/opt/homebrew/bin/claude-code", "~/.local/bin/claude-code">>

\* the files of the common locations that may exist
ExistingFiles == {{}, {"/home/u/.local/bin/claude-code"}}

\* the environments of the model: every configuration file with nothing to
\* detect, every probe outcome without a configured path, and a configured
\* path next to a local installation
Envs ==
    [config : Configs, which : {WhichEmpty}, existing : {{}}]
    \cup [config : {NoConfigFile, NoHomeDir}, which : WhichOutcomes, existing : ExistingFiles]
    \cup [config : {ConfiguredPath}, which : {WhichFound}, existing : ExistingFiles]

\* shellexpand::tilde
tilde(path, home) ==
    IF StartsWith(path, "~") /\ home # None
    THEN home[1] \o SubSeq(path, 2, Len(path))
    ELSE path

\* faulty variant: the path is looked up under another key
get_claude_config_path_wrong_key(config) ==
    IF config.home = None THEN None
    ELSE IF config.file = None THEN None
    ELSE IF config.file[1].parsed = None THEN None
    ELSE LET v == JGet(config.file[1].parsed[1], "claudePath")
         IN  IF v = None THEN None ELSE JAsStr(v[1])

get_claude_config_path(config) ==
    IF config.home = None THEN None
    ELSE IF config.file = None THEN None
    ELSE IF config.file[1].parsed = None THEN None
    ELSE LET v == JGet(config.file[1].parsed[1], "claudeCodePath")
         IN  IF v = None THEN None ELSE JAsStr(v[1])

\* faulty variant: the output of a failed PATH lookup is taken for a path
detect_local_claude_code_unfiltered(e) ==
    IF ~e.which.ran THEN None
    ELSE LET path == Trim(e.which.stdout)
         IN  IF e.which.success /\ path # ""
             THEN Some(path)
             ELSE IF \E i \in 1..Len(common_paths) :
                        tilde(common_paths[i], e.config.home) \in e.existing
                  THEN Some("claude-code")
                  ELSE None

detect_local_claude_code(e) ==
    IF ~e.which.ran THEN None
    ELSE LET path == Trim(e.which.stdout)
         IN  IF /\ e.which.success
                /\ path # ""
                /\ ~Contains(path, "not found")
                /\ ~Contains(path, "Could not find")
             THEN Some(path)
             ELSE IF \E i \in 1..Len(common_paths) :
                        tilde(common_paths[i], e.config.home) \in e.existing
                  THEN Some("claude-code")
                  ELSE None

----------------------------------------------------------------------------
(* Executors and their inputs *)

Overrides == {"claude", "/opt/npx-tools/claude"}
SessionIds == {"5f2a"}
FollowupPrompts == {"continue"}

\* ClaudeExecutor::new, new_plan_mode, with_command
ClaudeExecutors ==
    {[variant |-> "new", executor_type |-> "Claude", command |-> None,
      use_plan_mode |-> FALSE, session_id |-> "", prompt |-> ""],
     [variant |-> "new", executor_type |-> "ClaudePlan", command |-> None,
      use_plan_mode |-> TRUE, session_id |-> "", prompt |-> ""]}
    \cup {[variant |-> "new", executor_type |-> "Claude", command |-> Some(c),
           use_plan_mode |-> FALSE, session_id |-> "", prompt |-> ""] : c \in Overrides}

\* ClaudeFollowupExecutor::new, new_plan_mode, with_command
ClaudeFollowupExecutors ==
    {[variant |-> "resume", executor_type |-> "Claude", command |-> None,
      use_plan_mode |-> FALSE, session_id |-> s, prompt |-> p]
        : s \in SessionIds, p \in FollowupPrompts}
    \cup {[variant |-> "resume", executor_type |-> "ClaudePlan", command |-> None,
           use_plan_mode |-> TRUE, session_id |-> s, prompt |-> p]
        : s \in SessionIds, p \in FollowupPrompts}
    \cup {[variant |-> "resume", executor_type |-> "Claude", command |-> Some(c),
           use_plan_mode |-> FALSE, session_id |-> s, prompt |-> p]
        : s \in SessionIds, p \in FollowupPrompts, c \in Overrides}

Executors == ClaudeExecutors \cup ClaudeFollowupExecutors

\* Task::find_by_id
TaskLookups ==
    {[kind |-> "db_error"], [kind |-> "not_found"],
     [kind |-> "found", project_id |-> "p1", title |-> "Fix", description |-> None],
     [kind |-> "found", project_id |-> "p1", title |-> "Fix", description |-> Some("the bug")]}

NewTaskPrompt(task) ==
    IF task.description # None
    THEN "project_id: " \o task.project_id \o "\n            \nTask title: " \o task.title
         \o "\nTask description: " \o task.description[1]
    ELSE "project_id: " \o task.project_id \o "\n            \nTask title: " \o task.title

----------------------------------------------------------------------------
(* State *)

VARIABLES
    LOCAL_CLAUDE_CODE,  \* the OnceLock: None while unset, Some(Option<String>) once set
    env,                \* configuration file, PATH probe outcome, existing files
    exec,               \* the executor of the launch in progress
    pc,                 \* position of the launch in progress
    launches,           \* launches started so far
    prompt,             \* prompt text of the launch
    primary_command,    \* try_spawn_with_fallback: primary_command
    is_fallback,        \* try_spawn_with_fallback: is_fallback
    claude_command,     \* try_spawn_with_command: claude_command of the attempt
    attempt,            \* 1: primary attempt, 2: fallback attempt
    children,           \* the child processes spawned by this launch
    trace,              \* the operations this launch performed, in order
    result,             \* None while running, Some(Result) once the launch returned
    found,              \* paths that probes of this process have found so far
    script,             \* the watchkill script bash runs ("" when none runs)
    wpc,                \* position of the script: "off", "loop", "exited"
    subproc,            \* the process started by $command in the script
    pipe,               \* the output of $command the loop has not read yet
    line,               \* the script's variable line
    relayed,            \* the lines the script has printed
    produced,           \* the lines $command has written, a last unterminated one too
    exit_status,        \* None while the script runs, Some(status) once it exited
    log_text,           \* the log of the execution that is normalised
    worktree,           \* the worktree path given to normalize_logs
    files,              \* the file system make_path_relative looks at
    normalized,         \* None before the first call, Some(Result) of the last call
    call_logs,          \* the log text of the last call
    call_files,         \* the file system at the last call
    ncalls,             \* calls of normalize_logs so far
    first_call,         \* the first call on log_text: its file system and Result
    between,            \* calls on another log since the first call on log_text
    tool_call,          \* the tool invocation being entered: its ActionType and content
    earlier_call,       \* the same arguments under the tool name given before
    path_call,          \* the last direct call of make_path_relative
    calls,              \* the calls of get_claude_command that run side by side
    env_changes         \* changes of the environment while they run

launchVars == <<LOCAL_CLAUDE_CODE, env, exec, pc, launches, prompt, primary_command,
                is_fallback, claude_command, attempt, children, trace, result, found>>

scriptVars == <<script, wpc, subproc, pipe, line, relayed, produced, exit_status>>

normVars == <<log_text, worktree, files, normalized, call_logs, call_files, ncalls,
              first_call, between>>

toolVars == <<tool_call, earlier_call, path_call>>

resolveVars == <<calls, env_changes>>

vars == <<LOCAL_CLAUDE_CODE, env, exec, pc, launches, prompt, primary_command,
          is_fallback, claude_command, attempt, children, trace, result, found,
          script, wpc, subproc, pipe, line, relayed, produced, exit_status,
          log_text, worktree, files, normalized, call_logs, call_files, ncalls,
          first_call, between, tool_call, earlier_call, path_call,
          calls, env_changes>>

----------------------------------------------------------------------------
(* Errors and results *)

ExecutorError(kind, context, command) ==
    [kind |-> kind, context |-> context, command |-> command]

Ok(child) == Some([ok |-> TRUE, child |-> child])
Err(e) == Some([ok |-> FALSE, err |-> e])

SpawnErrorContext(e) ==
    IF e.variant = "new"
    THEN e.executor_type \o " CLI execution for new task"
    ELSE e.executor_type \o " CLI followup execution for session " \o e.session_id

WriteErrorContext(e) ==
    IF e.variant = "new"
    THEN "Failed to write prompt to " \o e.executor_type \o " CLI stdin"
    ELSE "Failed to write prompt to " \o e.executor_type \o " CLI stdin for session "
         \o e.session_id

CloseErrorContext(e) ==
    IF e.variant = "new"
    THEN "Failed to close " \o e.executor_type \o " CLI stdin"
    ELSE "Failed to close " \o e.executor_type \o " CLI stdin for session "
         \o e.session_id

----------------------------------------------------------------------------
(* get_command of the two executors, after get_claude_command has chosen   *)
(* the base command                                                        *)

\* ClaudeExecutor::get_command / ClaudeFollowupExecutor::get_command, override branch
OverrideCommand(e) ==
    IF e.variant = "new"
    THEN e.command[1]
    ELSE e.command[1] \o ResumeFlag(e.session_id)

\* the same, dynamic branch: resolved is what get_claude_command returned
DynamicCommand(e, resolved) ==
    IF e.variant = "new"
    THEN IF e.use_plan_mode THEN create_watchkill_script(resolved) ELSE resolved
    ELSE LET full_command == resolved \o ResumeFlag(e.session_id)
         IN  IF e.use_plan_mode THEN create_watchkill_script(full_command)
             ELSE full_command

\* faulty variant: the fallback of a resume launch loses the resume flag
FallbackCommand_without_resume(e) ==
    IF e.use_plan_mode
    THEN create_watchkill_script(build_claude_command(NPX_BASE, TRUE))
    ELSE build_claude_command(NPX_BASE, FALSE)

\* faulty variant: the fallback is always built for default mode, unwrapped
FallbackCommand_in_default_mode(e) ==
    IF e.variant = "new"
    THEN build_claude_command(NPX_BASE, FALSE)
    ELSE build_claude_command(NPX_BASE, FALSE) \o ResumeFlag(e.session_id)

\* the fallback command built by try_spawn_with_fallback
FallbackCommand(e) ==
    IF e.variant = "new"
    THEN IF e.use_plan_mode
         THEN create_watchkill_script(build_claude_command(NPX_BASE, TRUE))
         ELSE build_claude_command(NPX_BASE, FALSE)
    ELSE LET base_fallback == build_claude_command(NPX_BASE, e.use_plan_mode)
             fallback_command == base_fallback \o ResumeFlag(e.session_id)
         IN  IF e.use_plan_mode THEN create_watchkill_script(fallback_command)
             ELSE fallback_command

\* let is_fallback = primary_command.contains("npx")
IsFallbackCommand(command) == Contains(command, "npx")

\* the guard of the retry arm: Err(e) if !is_fallback
RetryWithFallback == attempt = 1 /\ ~is_fallback

----------------------------------------------------------------------------
(* Initial state: the process has started, no launch has been made *)

\* no log is being normalised
NoNormalization ==
    /\ log_text = ""
    /\ worktree = ""
    /\ files = [symlinks |-> {}, exists |-> {}]
    /\ normalized = None
    /\ call_logs = ""
    /\ call_files = [symlinks |-> {}, exists |-> {}]
    /\ ncalls = 0
    /\ first_call = None
    /\ between = 0

NoToolCalls ==
    /\ tool_call = None
    /\ earlier_call = None
    /\ path_call = None

NoResolverCalls ==
    /\ calls = <<>>
    /\ env_changes = 0

NoScript ==
    /\ script = ""
    /\ wpc = "off"
    /\ subproc = [todo |-> <<>>, tail |-> "", exits |-> TRUE, status |-> 0, state |-> "none"]
    /\ pipe = [lines |-> <<>>, tail |-> "", closed |-> FALSE]
    /\ line = ""
    /\ relayed = <<>>
    /\ produced = <<>>
    /\ exit_status = None

Init ==
    /\ NoScript
    /\ NoNormalization
    /\ NoToolCalls
    /\ NoResolverCalls
    /\ LOCAL_CLAUDE_CODE = None
    /\ env \in Envs
    /\ exec \in {CHOOSE e \in ClaudeExecutors : e.command = None /\ ~e.use_plan_mode}
    /\ pc = "idle"
    /\ launches = 0
    /\ prompt = ""
    /\ primary_command = ""
    /\ is_fallback = FALSE
    /\ claude_command = ""
    /\ attempt = 0
    /\ children = <<>>
    /\ trace = <<>>
    /\ result = None
    /\ found = {}

----------------------------------------------------------------------------
(* The environment: the configuration file, PATH and the installed files   *)
(* change between launches (an installation appears or goes away), one of  *)
(* them at a time                                                          *)

EnvChange ==
    /\ pc \in {"idle", "done"}
    /\ \E e \in Envs :
        /\ e # env
        /\ \/ e.which = env.which /\ e.existing = env.existing
           \/ e.config = env.config /\ e.existing = env.existing
           \/ e.config = env.config /\ e.which = env.which
        /\ env' = e
    /\ UNCHANGED <<LOCAL_CLAUDE_CODE, exec, pc, launches, prompt, primary_command,
                   is_fallback, claude_command, attempt, children, trace, result, found>>
    /\ UNCHANGED <<scriptVars, normVars, toolVars, resolveVars>>

----------------------------------------------------------------------------
(* A launch: Executor::spawn of ClaudeExecutor or ClaudeFollowupExecutor   *)

StartLaunch ==
    /\ pc \in {"idle", "done"}
    /\ launches < MaxLaunches
    /\ \E e \in Executors :
        /\ exec' = e
        /\ pc' = IF e.variant = "new" THEN "find_task" ELSE "get_command"
        /\ prompt' = e.prompt
    /\ launches' = launches + 1
    /\ primary_command' = ""
    /\ is_fallback' = FALSE
    /\ claude_command' = ""
    /\ attempt' = 0
    /\ children' = <<>>
    /\ trace' = <<>>
    /\ result' = None
    /\ UNCHANGED <<LOCAL_CLAUDE_CODE, env, found>>
    /\ UNCHANGED <<scriptVars, normVars, toolVars, resolveVars>>

\* faulty variant: a missing task is logged and the launch goes on to resolution
FindTask_ignores_missing_task ==
    /\ pc = "find_task"
    /\ \E r \in TaskLookups :
        /\ trace' = Append(trace, [op |-> "find_task", kind |-> r.kind])
        /\ IF r.kind # "db_error"
           THEN /\ prompt' = IF r.kind = "found" THEN NewTaskPrompt(r) ELSE prompt
                /\ pc' = "get_command"
                /\ result' = result
           ELSE /\ prompt' = prompt
                /\ pc' = "done"
                /\ result' = Err(ExecutorError("Database", "", ""))
    /\ UNCHANGED <<LOCAL_CLAUDE_CODE, env, exec, launches, primary_command, is_fallback,
                   claude_command, attempt, children, found>>
    /\ UNCHANGED <<scriptVars, normVars, toolVars, resolveVars>>

\* ClaudeExecutor::spawn: the task lookup and the prompt
FindTask ==
    /\ pc = "find_task"
    /\ \E r \in TaskLookups :
        /\ trace' = Append(trace, [op |-> "find_task", kind |-> r.kind])
        /\ IF r.kind = "found"
           THEN /\ prompt' = NewTaskPrompt(r)
                /\ pc' = "get_command"
                /\ result' = result
           ELSE /\ prompt' = prompt
                /\ pc' = "done"
                /\ result' = Err(ExecutorError(
                       IF r.kind = "not_found" THEN "TaskNotFound" ELSE "Database", "", ""))
    /\ UNCHANGED <<LOCAL_CLAUDE_CODE, env, exec, launches, primary_command, is_fallback,
                   claude_command, attempt, children, found>>
    /\ UNCHANGED <<scriptVars, normVars, toolVars, resolveVars>>

\* primary_command and is_fallback of try_spawn_with_fallback, then the first attempt
SetPrimary(command) ==
    /\ primary_command' = command
    /\ is_fallback' = IsFallbackCommand(command)
    /\ claude_command' = command
    /\ attempt' = 1
    /\ pc' = "spawn"

\* get_command, self.command is Some: no configuration read, no probe
GetCommandOverride ==
    /\ pc = "get_command"
    /\ exec.command # None
    /\ SetPrimary(OverrideCommand(exec))
    /\ trace' = Append(trace, [op |-> "override"])
    /\ UNCHANGED <<LOCAL_CLAUDE_CODE, env, exec, launches, prompt, children, result, found>>
    /\ UNCHANGED <<scriptVars, normVars, toolVars, resolveVars>>

\* get_claude_command up to the await of detect_local_claude_code:
\* the configuration read and LOCAL_CLAUDE_CODE.get_or_init(|| None)
ReadConfig ==
    /\ pc = "get_command"
    /\ exec.command = None
    /\ trace' = Append(trace, [op |-> "config_read"])
    /\ LET config_path == get_claude_config_path(env.config)
           local_claude == IF LOCAL_CLAUDE_CODE = None THEN None ELSE LOCAL_CLAUDE_CODE[1]
       IN  IF config_path # None
           THEN /\ SetPrimary(DynamicCommand(exec,
                      build_claude_command(config_path[1], exec.use_plan_mode)))
                /\ UNCHANGED LOCAL_CLAUDE_CODE
           ELSE /\ LOCAL_CLAUDE_CODE' = Some(local_claude)
                /\ IF local_claude = None
                   THEN /\ pc' = "detect"
                        /\ UNCHANGED <<primary_command, is_fallback, claude_command, attempt>>
                   ELSE SetPrimary(DynamicCommand(exec,
                            build_claude_command(local_claude[1], exec.use_plan_mode)))
    /\ UNCHANGED <<env, exec, launches, prompt, children, result, found>>
    /\ UNCHANGED <<scriptVars, normVars, toolVars, resolveVars>>

\* get_claude_command from detect_local_claude_code on: the probe, then the
\* local installation or npx
DetectLocal ==
    /\ pc = "detect"
    /\ LET claude_path == detect_local_claude_code(env)
       IN  /\ trace' = Append(trace, [op |-> "probe", found |-> claude_path])
           /\ found' = IF claude_path # None THEN found \cup {claude_path[1]} ELSE found
           /\ IF claude_path # None
              THEN SetPrimary(DynamicCommand(exec,
                       build_claude_command(claude_path[1], exec.use_plan_mode)))
              ELSE SetPrimary(DynamicCommand(exec,
                       build_claude_command(NPX_BASE, exec.use_plan_mode)))
    /\ UNCHANGED <<LOCAL_CLAUDE_CODE, env, exec, launches, prompt, children, result>>
    /\ UNCHANGED <<scriptVars, normVars, toolVars, resolveVars>>

\* the match of try_spawn_with_fallback on an Err of the attempt
AttemptFailed(e) ==
    IF RetryWithFallback
    THEN /\ attempt' = 2
         /\ claude_command' = FallbackCommand(exec)
         /\ pc' = "spawn"
         /\ result' = result
    ELSE /\ result' = Err(e)
         /\ pc' = "done"
         /\ UNCHANGED <<attempt, claude_command>>

\* try_spawn_with_command: command.group_spawn()
Spawn ==
    /\ pc = "spawn"
    /\ \E ok \in BOOLEAN :
        /\ trace' = Append(trace, [op |-> "spawn", attempt |-> attempt,
                                   command |-> claude_command, ok |-> ok,
                                   child |-> IF ok THEN Len(children) + 1 ELSE 0])
        /\ IF ok
           THEN /\ children' = Append(children,
                       [command |-> claude_command, stdin |-> "",
                        stdin_open |-> TRUE, alive |-> TRUE])
                /\ pc' = "write"
                /\ UNCHANGED <<attempt, claude_command, result>>
           ELSE /\ children' = children
                /\ AttemptFailed(
                       ExecutorError("SpawnFailed", SpawnErrorContext(exec), claude_command))
    /\ UNCHANGED <<LOCAL_CLAUDE_CODE, env, exec, launches, prompt, primary_command,
                   is_fallback, found>>
    /\ UNCHANGED <<scriptVars, normVars, toolVars, resolveVars>>

\* faulty variant: a single write that delivers only a part of the buffer
write_some(stdin, bytes) == stdin \o SubSeq(bytes, 1, Len(bytes) \div 2)

\* AsyncWriteExt::write_all on success: the whole buffer has reached the pipe
write_all(stdin, bytes) == stdin \o bytes

\* try_spawn_with_command: stdin.write_all(prompt); on Err the child is dropped
\* (kill_on_drop), a failed write may have delivered a part of the prompt
WriteStdin ==
    /\ pc = "write"
    /\ LET c == Len(children)
       IN  \E ok \in BOOLEAN :
            /\ trace' = Append(trace, [op |-> "write", attempt |-> attempt, child |-> c,
                                       ok |-> ok])
            /\ IF ok
               THEN /\ children' = [children EXCEPT
                                       ![c].stdin = write_all(children[c].stdin, prompt)]
                    /\ pc' = "close"
                    /\ UNCHANGED <<attempt, claude_command, result>>
               ELSE /\ \E n \in {0, Len(prompt) \div 2} :
                        children' = [children EXCEPT ![c].stdin = SubSeq(prompt, 1, n),
                                                     ![c].stdin_open = FALSE,
                                                     ![c].alive = FALSE]
                    /\ AttemptFailed(
                           ExecutorError("SpawnFailed", WriteErrorContext(exec),
                                         claude_command))
    /\ UNCHANGED <<LOCAL_CLAUDE_CODE, env, exec, launches, prompt, primary_command,
                   is_fallback, found>>
    /\ UNCHANGED <<scriptVars, normVars, toolVars, resolveVars>>

\* try_spawn_with_command: stdin.shutdown(), then Ok(child)
CloseStdin ==
    /\ pc = "close"
    /\ LET c == Len(children)
       IN  \E ok \in BOOLEAN :
            /\ trace' = Append(trace, [op |-> "close", attempt |-> attempt, child |-> c,
                                       ok |-> ok])
            /\ IF ok
               THEN /\ children' = [children EXCEPT ![c].stdin_open = FALSE]
                    /\ result' = Ok(c)
                    /\ pc' = "done"
                    /\ UNCHANGED <<attempt, claude_command>>
               ELSE /\ children' = [children EXCEPT ![c].stdin_open = FALSE,
                                                    ![c].alive = FALSE]
                    /\ AttemptFailed(
                           ExecutorError("SpawnFailed", CloseErrorContext(exec),
                                         claude_command))
    /\ UNCHANGED <<LOCAL_CLAUDE_CODE, env, exec, launches, prompt, primary_command,
                   is_fallback, found>>
    /\ UNCHANGED <<scriptVars, normVars, toolVars, resolveVars>>

----------------------------------------------------------------------------
(* The watchkill script at run time: bash runs the text that               *)
(* create_watchkill_script generated.  $command runs in a process          *)
(* substitution with stdout and stderr on one pipe; the loop reads the     *)
(* pipe line by line.                                                      *)

\* the value bash assigns for the line name="..." of the script
ScriptVariable(text, name) ==
    LET key == "\n" \o name \o "=\""
        start == IndexOf(text, key) + Len(key)
        rest == SubSeq(text, start, Len(text))
    IN  SubSeq(rest, 1, IndexOf(rest, "\"") - 1)

\* faulty variant: the line is compared with the phrase as a whole
LineMatches_whole_line(l, word) == l = word

\* if [[ $line == *"$word"* ]]
LineMatches(l, word) == Contains(l, word)

\* ${PIPESTATUS[0]} after the loop: the status of the last pipeline the shell
\* itself ran, which is the read that met end of input (1) or, in a shell
\* that records compound commands, the loop (0).  The status of $command,
\* which ran in the process substitution, is not among them.
PipeStatusAfterLoop == {0, 1}

OutputLines == {"", "{\"type\":\"assistant\"}",
                "error: " \o claude_plan_stop_indicator \o "."}
OutputTails == {"", "{\"type\":\"res"}
ExitStatuses == {0, 1, 127}

RECURSIVE SeqsUpTo(_, _)
SeqsUpTo(S, n) ==
    IF n = 0 THEN {<<>>}
    ELSE LET shorter == SeqsUpTo(S, n - 1)
         IN  shorter \cup {Append(q, x) : q \in shorter, x \in S}

WatchkillScripts ==
    {create_watchkill_script(build_claude_command(NPX_BASE, TRUE)),
     create_watchkill_script(build_claude_command("claude-code", TRUE) \o ResumeFlag("5f2a"))}

InitScript ==
    /\ NoNormalization
    /\ NoToolCalls
    /\ NoResolverCalls
    /\ script \in WatchkillScripts
    /\ wpc = "loop"
    /\ subproc \in [todo : SeqsUpTo(OutputLines, MaxLines), tail : OutputTails,
                  exits : BOOLEAN, status : ExitStatuses, state : {"running"}]
    /\ pipe = [lines |-> <<>>, tail |-> "", closed |-> FALSE]
    /\ line = ""
    /\ relayed = <<>>
    /\ produced = <<>>
    /\ exit_status = None
    /\ LOCAL_CLAUDE_CODE = None
    /\ env = [config |-> NoConfigFile, which |-> WhichEmpty, existing |-> {}]
    /\ exec \in {CHOOSE e \in ClaudeExecutors : e.command = None /\ e.use_plan_mode}
    /\ pc = "idle"
    /\ launches = 0
    /\ prompt = ""
    /\ primary_command = ""
    /\ is_fallback = FALSE
    /\ claude_command = ""
    /\ attempt = 0
    /\ children = <<>>
    /\ trace = <<>>
    /\ result = None
    /\ found = {}

\* $command writes its next line; once the script has exited nobody reads the
\* pipe and the write kills $command (SIGPIPE)
ChildWriteLine ==
    /\ subproc.state = "running"
    /\ subproc.todo # <<>>
    /\ IF wpc = "exited"
       THEN /\ subproc' = [subproc EXCEPT !.state = "killed"]
            /\ pipe' = pipe
            /\ produced' = produced
       ELSE /\ subproc' = [subproc EXCEPT !.todo = Tail(subproc.todo)]
            /\ pipe' = [pipe EXCEPT !.lines = Append(pipe.lines, Head(subproc.todo))]
            /\ produced' = Append(produced, Head(subproc.todo))
    /\ UNCHANGED <<script, wpc, line, relayed, exit_status>>
    /\ UNCHANGED <<launchVars, normVars, toolVars, resolveVars>>

\* $command has written all its lines: it writes its unterminated last text
\* and exits, or it stays paused and never exits (plan mode waiting for approval)
ChildFinish ==
    /\ subproc.state = "running"
    /\ subproc.todo = <<>>
    /\ IF subproc.exits
       THEN /\ subproc' = [subproc EXCEPT !.state = "exited"]
            /\ pipe' = [pipe EXCEPT !.tail = subproc.tail, !.closed = TRUE]
       ELSE /\ subproc' = [subproc EXCEPT !.state = "paused"]
            /\ pipe' = [pipe EXCEPT !.tail = subproc.tail]
    /\ produced' = IF subproc.tail = "" \/ wpc = "exited" THEN produced
                    ELSE Append(produced, subproc.tail)
    /\ UNCHANGED <<script, wpc, line, relayed, exit_status>>
    /\ UNCHANGED <<launchVars, normVars, toolVars, resolveVars>>

\* one iteration of the loop: read -r line; printf '%s\n' "$line"; the test
\* for $word and exit 0
LoopIteration ==
    /\ wpc = "loop"
    /\ pipe.lines # <<>>
    /\ line' = Head(pipe.lines)
    /\ pipe' = [pipe EXCEPT !.lines = Tail(pipe.lines)]
    /\ relayed' = Append(relayed, line')
    /\ IF LineMatches(line', ScriptVariable(script, "word"))
       THEN /\ wpc' = "exited"
            /\ exit_status' = Some(0)
       ELSE /\ wpc' = "loop"
            /\ exit_status' = exit_status
    /\ UNCHANGED <<script, subproc, produced>>
    /\ UNCHANGED <<launchVars, normVars, toolVars, resolveVars>>

\* read meets end of input (line keeps the unterminated text, the loop body
\* does not run); exit_code=${PIPESTATUS[0]}; exit "$exit_code"
LoopEnd ==
    /\ wpc = "loop"
    /\ pipe.lines = <<>>
    /\ pipe.closed
    /\ line' = pipe.tail
    /\ pipe' = [pipe EXCEPT !.tail = ""]
    /\ \E exit_code \in PipeStatusAfterLoop :
        exit_status' = Some(exit_code)
    /\ wpc' = "exited"
    /\ UNCHANGED <<script, subproc, relayed, produced>>
    /\ UNCHANGED <<launchVars, normVars, toolVars, resolveVars>>

NextScript ==
    \/ ChildWriteLine
    \/ ChildFinish
    \/ LoopIteration
    \/ LoopEnd

SpecScript == InitScript /\ [][NextScript]_vars

----------------------------------------------------------------------------
Next ==
    \/ EnvChange
    \/ StartLaunch
    \/ FindTask
    \/ GetCommandOverride
    \/ ReadConfig
    \/ DetectLocal
    \/ Spawn
    \/ WriteStdin
    \/ CloseStdin

Spec == Init /\ [][Next]_vars

----------------------------------------------------------------------------
(* Log normalisation: text and path helpers                                *)

JNull == [t |-> "null"]

\* Option::unwrap_or
unwrap_or(option, default) == IF option = None THEN default ELSE option[1]

\* Value::as_array
JAsArray(v) == IF v.t = "array" THEN Some(v.a) ELSE None

\* faulty variant: a field that is no string reads as the empty string
JGetStr_empty_for_non_string(v, key) ==
    LET f == JGet(v, key)
    IN  IF f = None THEN None
        ELSE IF f[1].t = "string" THEN Some(f[1].s) ELSE Some("")

\* json.get(key).and_then(|v| v.as_str())
JGetStr(v, key) ==
    LET f == JGet(v, key)
    IN  IF f = None THEN None ELSE JAsStr(f[1])

\* the pieces of s between the occurrences of the character sep
Split(s, sep) ==
    LET at == {i \in 1..Len(s) : SubSeq(s, i, i) = sep}
        n == Cardinality(at)
        \* the position of the k-th separator; 0 and Len(s) + 1 close the text
        cut(k) == IF k = 0 THEN 0
                  ELSE IF k > n THEN Len(s) + 1
                  ELSE CHOOSE i \in at : Cardinality({j \in at : j < i}) = k - 1
    IN  [k \in 1..(n + 1) |-> SubSeq(s, cut(k - 1) + 1, cut(k) - 1)]

RECURSIVE Join(_, _)
Join(pieces, sep) ==
    IF pieces = <<>> THEN ""
    ELSE IF Len(pieces) = 1 THEN pieces[1]
    ELSE pieces[1] \o sep \o Join(Tail(pieces), sep)

\* str::lines: the text between line feeds, a line's closing carriage return
\* removed; text after the last line feed is a line when it is not empty
lines(text) ==
    LET pieces == Split(text, "\n")
        n == Len(pieces)
        terminated ==
            [i \in 1..(n - 1) |->
                IF EndsWith(pieces[i], "\r")
                THEN SubSeq(pieces[i], 1, Len(pieces[i]) - 1)
                ELSE pieces[i]]
    IN  IF pieces[n] = "" THEN terminated ELSE terminated \o <<pieces[n]>>

\* char::to_lowercase on the letters of tool names
LowerChar(c) ==
    CASE c = "A" -> "a" [] c = "B" -> "b" [] c = "C" -> "c" [] c = "D" -> "d"
      [] c = "E" -> "e" [] c = "F" -> "f" [] c = "G" -> "g" [] c = "H" -> "h"
      [] c = "I" -> "i" [] c = "J" -> "j" [] c = "K" -> "k" [] c = "L" -> "l"
      [] c = "M" -> "m" [] c = "N" -> "n" [] c = "O" -> "o" [] c = "P" -> "p"
      [] c = "Q" -> "q" [] c = "R" -> "r" [] c = "S" -> "s" [] c = "T" -> "t"
      [] c = "U" -> "u" [] c = "V" -> "v" [] c = "W" -> "w" [] c = "X" -> "x"
      [] c = "Y" -> "y" [] c = "Z" -> "z" [] OTHER -> c

\* faulty variant: only the first letter is lowered
to_lowercase_first_letter(s) ==
    IF s = "" THEN "" ELSE LowerChar(SubSeq(s, 1, 1)) \o SubSeq(s, 2, Len(s))

\* str::to_lowercase
RECURSIVE to_lowercase(_)
to_lowercase(s) ==
    IF s = "" THEN ""
    ELSE LowerChar(SubSeq(s, 1, 1)) \o to_lowercase(SubSeq(s, 2, Len(s)))

----------------------------------------------------------------------------
(* Paths and the file system make_path_relative looks at                   *)

\* Path::is_relative
is_relative(path) == ~StartsWith(path, "/")

\* Path::components below the root: empty components and "." are skipped
Components(path) ==
    SelectSeq(Split(path, "/"), LAMBDA c : c # "" /\ c # ".")

\* Components::as_path of what strip_prefix leaves: the text of the path from
\* the component after the first k to the last component, as it was written
remainder(pieces, k) ==
    LET at == {i \in DOMAIN pieces : pieces[i] # "" /\ pieces[i] # "."}
        rest == {i \in at : Cardinality({j \in at : j < i}) >= k}
    IN  IF rest = {} THEN ""
        ELSE Join(SubSeq(pieces, CHOOSE i \in rest : \A j \in rest : i <= j,
                                 CHOOSE i \in rest : \A j \in rest : j <= i), "/")

\* faulty variant: the last component of base only has to begin the
\* component of the path at its place
strip_components_by_text(pieces, b, same_root) ==
    LET p == SelectSeq(pieces, LAMBDA c : c # "" /\ c # ".")
    IN  IF /\ same_root
           /\ Len(b) > 0
           /\ Len(b) <= Len(p)
           /\ SubSeq(p, 1, Len(b) - 1) = SubSeq(b, 1, Len(b) - 1)
           /\ StartsWith(p[Len(b)], b[Len(b)])
        THEN Some(remainder(pieces, Len(b)))
        ELSE None

\* Path::strip_prefix: Some(remainder) when base is a prefix of path by whole
\* components, None for its Err
strip_components(pieces, b, same_root) ==
    IF /\ same_root
       /\ Len(b) <= Len(SelectSeq(pieces, LAMBDA c : c # "" /\ c # "."))
       /\ SubSeq(SelectSeq(pieces, LAMBDA c : c # "" /\ c # "."), 1, Len(b)) = b
    THEN Some(remainder(pieces, Len(b)))
    ELSE None

strip_prefix(path, base) ==
    strip_components(Split(path, "/"), Components(base),
                     is_relative(path) = is_relative(base))

\* a file system: its symbolic links (link, target) and the canonical paths
\* that exist
NoFiles == [symlinks |-> {}, exists |-> {}]
TmpIsLink ==
    [symlinks |-> {<<"/tmp", "/private/tmp">>},
     exists |-> {"/private/tmp/wt", "/private/tmp/wt/a.rs"}]
FileSystems == {NoFiles, TmpIsLink}

\* std::fs::canonicalize: links resolved, None for its Err (no such file)
canonicalize(path, fs) ==
    LET through == {l \in fs.symlinks : path = l[1] \/ StartsWith(path, l[1] \o "/")}
        resolved ==
            IF through = {} THEN path
            ELSE LET l == CHOOSE l \in through : TRUE
                 IN  l[2] \o SubSeq(path, Len(l[1]) + 1, Len(path))
    IN  IF resolved \in fs.exists THEN Some(resolved) ELSE None

\* match (canonical_path, canonical_worktree): the canonical remainder when
\* both are Ok and one is a prefix of the other, None otherwise
strip_canonical_prefix(canonical_path, canonical_worktree) ==
    IF canonical_path # None /\ canonical_worktree # None
    THEN strip_prefix(canonical_path[1], canonical_worktree[1])
    ELSE None

make_path_relative(path, worktree_path, fs) ==
    IF is_relative(path) THEN path
    ELSE unwrap_or(strip_prefix(path, worktree_path),
                   unwrap_or(strip_canonical_prefix(canonicalize(path, fs),
                                                    canonicalize(worktree_path, fs)),
                             path))

----------------------------------------------------------------------------
(* ActionType of a tool invocation and its one-line summary                *)

\* the back quote of the summaries, written as an apostrophe: a TLA+ string
\* cannot hold a back quote
BackQuote == "'"

FileRead(path) == [kind |-> "FileRead", path |-> path]
FileWrite(path) == [kind |-> "FileWrite", path |-> path]
CommandRun(command) == [kind |-> "CommandRun", command |-> command]
Search(query) == [kind |-> "Search", query |-> query]
WebFetch(url) == [kind |-> "WebFetch", url |-> url]
TaskCreate(description) == [kind |-> "TaskCreate", description |-> description]
PlanPresentation(plan) == [kind |-> "PlanPresentation", plan |-> plan]
Other(description) == [kind |-> "Other", description |-> description]

extract_action_type(tool_name, input, worktree_path, fs) ==
    LET name == to_lowercase(tool_name)
        file_path == JGetStr(input, "file_path")
        path == JGetStr(input, "path")
        command == JGetStr(input, "command")
        pattern == JGetStr(input, "pattern")
        url == JGetStr(input, "url")
        description == JGetStr(input, "description")
        prompt_arg == JGetStr(input, "prompt")
        plan == JGetStr(input, "plan")
    IN  CASE name = "read" ->
               IF file_path # None
               THEN FileRead(make_path_relative(file_path[1], worktree_path, fs))
               ELSE Other("File read operation")
          [] name \in {"edit", "write", "multiedit"} ->
               IF file_path # None
               THEN FileWrite(make_path_relative(file_path[1], worktree_path, fs))
               ELSE IF path # None
               THEN FileWrite(make_path_relative(path[1], worktree_path, fs))
               ELSE Other("File write operation")
          [] name = "bash" ->
               IF command # None THEN CommandRun(command[1])
               ELSE Other("Command execution")
          [] name = "grep" ->
               IF pattern # None THEN Search(pattern[1])
               ELSE Other("Search operation")
          [] name = "glob" ->
               IF pattern # None THEN Other("Find files: " \o pattern[1])
               ELSE Other("File pattern search")
          [] name = "webfetch" ->
               IF url # None THEN WebFetch(url[1])
               ELSE Other("Web fetch operation")
          [] name = "task" ->
               IF description # None THEN TaskCreate(description[1])
               ELSE IF prompt_arg # None THEN TaskCreate(prompt_arg[1])
               ELSE Other("Task creation")
          [] name = "exit_plan_mode" ->
               IF plan # None THEN PlanPresentation(plan[1])
               ELSE Other("Plan presentation")
          [] OTHER -> Other("Tool: " \o tool_name)

\* the status glyphs of the todo summary, by name: check mark, arrows,
\* hourglass, memo
status_emoji(status) ==
    CASE status = "completed" -> "(check-mark)"
      [] status = "in_progress" -> "(arrows)"
      [] status \in {"pending", "todo"} -> "(hourglass)"
      [] OTHER -> "(memo)"

\* faulty variant: a todo without a string content gives a line as well
RECURSIVE todo_items_keeps_all(_)
todo_items_keeps_all(todos) ==
    IF todos = <<>> THEN <<>>
    ELSE LET todo == Head(todos)
             content == JGetStr(todo, "content")
             status == JGetStr(todo, "status")
             priority == JGetStr(todo, "priority")
         IN  <<status_emoji(IF status = None THEN "pending" ELSE status[1])
               \o " " \o (IF content = None THEN "" ELSE content[1]) \o " ("
               \o (IF priority = None THEN "medium" ELSE priority[1]) \o ")">>
             \o todo_items_keeps_all(Tail(todos))

\* the todo_items of generate_concise_content: one line per todo with a
\* string content
RECURSIVE todo_items(_)
todo_items(todos) ==
    IF todos = <<>> THEN <<>>
    ELSE LET todo == Head(todos)
             content == JGetStr(todo, "content")
             status == JGetStr(todo, "status")
             priority == JGetStr(todo, "priority")
         IN  (IF content = None THEN <<>>
              ELSE <<status_emoji(IF status = None THEN "pending" ELSE status[1])
                     \o " " \o content[1] \o " ("
                     \o (IF priority = None THEN "medium" ELSE priority[1]) \o ")">>)
             \o todo_items(Tail(todos))

generate_concise_content(tool_name, input, action_type, worktree_path, fs) ==
    CASE action_type.kind = "FileRead" -> BackQuote \o action_type.path \o BackQuote
      [] action_type.kind = "FileWrite" -> BackQuote \o action_type.path \o BackQuote
      [] action_type.kind = "CommandRun" -> BackQuote \o action_type.command \o BackQuote
      [] action_type.kind = "Search" -> BackQuote \o action_type.query \o BackQuote
      [] action_type.kind = "WebFetch" -> BackQuote \o action_type.url \o BackQuote
      [] action_type.kind = "TaskCreate" -> action_type.description
      [] action_type.kind = "PlanPresentation" -> action_type.plan
      [] action_type.kind = "Other" ->
           LET name == to_lowercase(tool_name)
               path == JGetStr(input, "path")
               pattern == JGetStr(input, "pattern")
               query == JGetStr(input, "query")
               todos == LET t == JGet(input, "todos")
                        IN  IF t = None THEN None ELSE JAsArray(t[1])
           IN  CASE name \in {"todoread", "todowrite"} ->
                      IF todos # None /\ todo_items(todos[1]) # <<>>
                      THEN "TODO List:\n" \o Join(todo_items(todos[1]), "\n")
                      ELSE "Managing TODO list"
                 [] name = "ls" ->
                      IF path # None
                      THEN LET relative_path ==
                                   make_path_relative(path[1], worktree_path, fs)
                           IN  IF relative_path = "" THEN "List directory"
                               ELSE "List directory: " \o BackQuote \o relative_path \o BackQuote
                      ELSE "List directory"
                 [] name = "glob" ->
                      IF path # None
                      THEN "Find files: " \o BackQuote \o (IF pattern = None THEN "*" ELSE pattern[1])
                           \o BackQuote \o " in " \o BackQuote
                           \o make_path_relative(path[1], worktree_path, fs) \o BackQuote
                      ELSE "Find files: " \o BackQuote \o (IF pattern = None THEN "*" ELSE pattern[1])
                           \o BackQuote
                 [] name = "codebase_search_agent" ->
                      IF query # None THEN "Search: " \o query[1]
                      ELSE "Codebase search"
                 [] OTHER -> tool_name

----------------------------------------------------------------------------
(* The lines of agent output the model puts into logs, and their parse   *)

EmptyLine ==
    ""
BlankLine ==
    "  "
RawLine ==
    "  oops"
TruncatedLine ==
    "{\"session_id\":\"s9\",\"type\":\"assis"
ArrayLine ==
    "[\"result\"]"
NumberLine ==
    "7"
InitLine ==
    "{\"type\":\"system\",\"subtype\":\"init\",\"session_id\":\"s1\",\"model\":\"m1\"}"
InitNoModelLine ==
    "{\"type\":\"system\",\"subtype\":\"init\"}"
StatusLine ==
    "{\"type\":\"system\",\"subtype\":\"status\"}"
AssistantTextLine ==
    "{\"type\":\"assistant\",\"message\":{\"content\":[{\"type\":\"text\",\"text\":\"Hello world\"}]},\"session_id\":\"s2\"}"
AssistantToolLine ==
    "{\"type\":\"assistant\",\"message\":{\"content\":[{\"type\":\"text\",\"text\":\"reading\"},{\"type\":\"tool_use\",\"name\":\"Read\",\"input\":{\"file_path\":\"/private/tmp/wt/a.rs\"}},{\"type\":\"thinking\",\"thinking\":\"hm\"}]}}"
AssistantNoMessageLine ==
    "{\"type\":\"assistant\",\"session_id\":\"s5\"}"
UserLine ==
    "{\"type\":\"user\",\"message\":{\"content\":[{\"type\":\"text\",\"text\":\"hi\"},{\"type\":\"tool_result\",\"content\":\"ok\"}]}}"
ResultLine ==
    "{\"type\":\"result\",\"subtype\":\"success\",\"result\":\"Final result\",\"session_id\":\"s3\"}"
UnknownLine ==
    "{\"type\":\"unknown\",\"data\":\"some data\"}"
NoTypeLine ==
    "{\"session_id\":\"s4\"}"
NumericTypeLine ==
    "{\"type\":7,\"session_id\":8}"
AssistantNoContentLine ==
    "{\"type\":\"assistant\",\"message\":{\"content\":\"hi\"}}"
AssistantEmptyContentLine ==
    "{\"type\":\"assistant\",\"message\":{\"content\":[]},\"session_id\":\"s6\"}"
UserNoMessageLine ==
    "{\"type\":\"user\"}"
NoSubtypeLine ==
    "{\"type\":\"system\",\"model\":\"m1\"}"
AssistantOddItemsLine ==
    "{\"type\":\"assistant\",\"message\":{\"content\":[{\"type\":\"text\"},{\"type\":\"tool_use\",\"input\":{}},\"note\",{\"type\":\"tool_use\",\"name\":\"Bash\"},{\"text\":\"untyped\"},{\"type\":\"text\",\"text\":\"done\"}]}}"
UserToolUseLine ==
    "{\"type\":\"user\",\"message\":{\"content\":[{\"type\":\"tool_use\",\"name\":\"Read\",\"input\":{\"file_path\":\"a.rs\"}},{\"type\":\"text\",\"text\":\"go on\"}]}}"

AllLines ==
    {EmptyLine, BlankLine, RawLine, TruncatedLine, ArrayLine, NumberLine,
     InitLine, InitNoModelLine, StatusLine, AssistantTextLine,
     AssistantToolLine, AssistantNoMessageLine, UserLine, ResultLine,
     UnknownLine, NoTypeLine, NumericTypeLine, AssistantNoContentLine,
     AssistantEmptyContentLine, UserNoMessageLine, NoSubtypeLine,
     AssistantOddItemsLine, UserToolUseLine}

\* serde_json::from_str on the lines of the model: the value serde_json
\* returns for the text, None for its Err
from_str(text) ==
    CASE text = ArrayLine ->
        Some(JArr(<<JStr("result")>>))
      [] text = NumberLine ->
        Some(JNum(7))
      [] text = InitLine ->
        Some(JObj([type |-> JStr("system"), subtype |-> JStr("init"),
             session_id |-> JStr("s1"), model |-> JStr("m1")]))
      [] text = InitNoModelLine ->
        Some(JObj([type |-> JStr("system"), subtype |-> JStr("init")]))
      [] text = StatusLine ->
        Some(JObj([type |-> JStr("system"), subtype |-> JStr("status")]))
      [] text = AssistantTextLine ->
        Some(JObj([type |-> JStr("assistant"),
             message |-> JObj([content |-> JArr(<<JObj([type |-> JStr("text"),
             text |-> JStr("Hello world")])>>)]), session_id |-> JStr("s2")]))
      [] text = AssistantToolLine ->
        Some(JObj([type |-> JStr("assistant"),
             message |-> JObj([content |-> JArr(<<JObj([type |-> JStr("text"),
             text |-> JStr("reading")]), JObj([type |-> JStr("tool_use"),
             name |-> JStr("Read"),
             input |-> JObj([file_path |-> JStr("/private/tmp/wt/a.rs")])]),
             JObj([type |-> JStr("thinking"), thinking |-> JStr("hm")])>>)])]))
      [] text = AssistantNoMessageLine ->
        Some(JObj([type |-> JStr("assistant"), session_id |-> JStr("s5")]))
      [] text = UserLine ->
        Some(JObj([type |-> JStr("user"),
             message |-> JObj([content |-> JArr(<<JObj([type |-> JStr("text"),
             text |-> JStr("hi")]), JObj([type |-> JStr("tool_result"),
             content |-> JStr("ok")])>>)])]))
      [] text = ResultLine ->
        Some(JObj([type |-> JStr("result"), subtype |-> JStr("success"),
             result |-> JStr("Final result"), session_id |-> JStr("s3")]))
      [] text = UnknownLine ->
        Some(JObj([type |-> JStr("unknown"), data |-> JStr("some data")]))
      [] text = NoTypeLine ->
        Some(JObj([session_id |-> JStr("s4")]))
      [] text = NumericTypeLine ->
        Some(JObj([type |-> JNum(7), session_id |-> JNum(8)]))
      [] text = AssistantNoContentLine ->
        Some(JObj([type |-> JStr("assistant"),
             message |-> JObj([content |-> JStr("hi")])]))
      [] text = AssistantEmptyContentLine ->
        Some(JObj([type |-> JStr("assistant"),
             message |-> JObj([content |-> JArr(<<>>)]), session_id |-> JStr("s6")]))
      [] text = UserNoMessageLine ->
        Some(JObj([type |-> JStr("user")]))
      [] text = NoSubtypeLine ->
        Some(JObj([type |-> JStr("system"), model |-> JStr("m1")]))
      [] text = AssistantOddItemsLine ->
        Some(JObj([type |-> JStr("assistant"),
             message |-> JObj([content |-> JArr(<<JObj([type |-> JStr("text")]),
             JObj([type |-> JStr("tool_use"), input |-> JObj(<<>>)]),
             JStr("note"), JObj([type |-> JStr("tool_use"), name |-> JStr("Bash")]),
             JObj([text |-> JStr("untyped")]),
             JObj([type |-> JStr("text"), text |-> JStr("done")])>>)])]))
      [] text = UserToolUseLine ->
        Some(JObj([type |-> JStr("user"),
             message |-> JObj([content |-> JArr(<<JObj([type |-> JStr("tool_use"),
             name |-> JStr("Read"), input |-> JObj([file_path |-> JStr("a.rs")])]),
             JObj([type |-> JStr("text"), text |-> JStr("go on")])>>)])]))
      [] OTHER -> None

----------------------------------------------------------------------------
(* normalize_logs                                                          *)

SystemMessage == [type |-> "SystemMessage"]
AssistantMessage == [type |-> "AssistantMessage"]
UserMessage == [type |-> "UserMessage"]
ToolUse(tool_name, action_type) ==
    [type |-> "ToolUse", tool_name |-> tool_name, action_type |-> action_type]

NormalizedEntry(entry_type, content, metadata) ==
    [timestamp |-> None, entry_type |-> entry_type, content |-> content,
     metadata |-> metadata]

NormalizedConversation(entries, session_id, executor_type) ==
    [entries |-> entries, session_id |-> session_id, executor_type |-> executor_type,
     prompt |-> None, summary |-> None]

\* the entry of a line that is not JSON
RawOutput(trimmed) ==
    NormalizedEntry(SystemMessage, "Raw output: " \o trimmed, None)

\* faulty variant: the unrecognized entry keeps the text and loses the value
UnrecognizedJson_without_value(json, trimmed) ==
    NormalizedEntry(SystemMessage, "Unrecognized JSON: " \o trimmed, None)

\* the entry of a JSON line no arm has processed
UnrecognizedJson(json, trimmed) ==
    NormalizedEntry(SystemMessage, "Unrecognized JSON: " \o trimmed, Some(json))

\* faulty variant: a text item is pushed twice
AssistantItem_pushes_twice(content_item, worktree_path, fs) ==
    LET content_type == JGetStr(content_item, "type")
        text == JGetStr(content_item, "text")
    IN  IF content_type = Some("text") /\ text # None
        THEN <<NormalizedEntry(AssistantMessage, text[1], Some(content_item)),
               NormalizedEntry(AssistantMessage, text[1], Some(content_item))>>
        ELSE <<>>

\* faulty variant: an item of another kind is pushed as unrecognized JSON
AssistantItem_promotes_other_kinds(content_item, worktree_path, fs) ==
    LET content_type == JGetStr(content_item, "type")
        text == JGetStr(content_item, "text")
        tool_name == JGetStr(content_item, "name")
    IN  IF content_type = Some("text") /\ text # None
        THEN <<NormalizedEntry(AssistantMessage, text[1], Some(content_item))>>
        ELSE IF content_type = Some("tool_use") /\ tool_name # None
        THEN LET input == IF JGet(content_item, "input") = None THEN JNull
                          ELSE JGet(content_item, "input")[1]
                 action_type ==
                     extract_action_type(tool_name[1], input, worktree_path, fs)
                 content ==
                     generate_concise_content(tool_name[1], input, action_type,
                                              worktree_path, fs)
             IN  <<NormalizedEntry(ToolUse(tool_name[1], action_type), content,
                                   Some(content_item))>>
        ELSE <<UnrecognizedJson(content_item, "item")>>

\* the entries pushed for one content item of an assistant message
AssistantItem(content_item, worktree_path, fs) ==
    LET content_type == JGetStr(content_item, "type")
        text == JGetStr(content_item, "text")
        tool_name == JGetStr(content_item, "name")
    IN  IF content_type = Some("text") /\ text # None
        THEN <<NormalizedEntry(AssistantMessage, text[1], Some(content_item))>>
        ELSE IF content_type = Some("tool_use") /\ tool_name # None
        THEN LET input == IF JGet(content_item, "input") = None THEN JNull
                          ELSE JGet(content_item, "input")[1]
                 action_type ==
                     extract_action_type(tool_name[1], input, worktree_path, fs)
                 content ==
                     generate_concise_content(tool_name[1], input, action_type,
                                              worktree_path, fs)
             IN  <<NormalizedEntry(ToolUse(tool_name[1], action_type), content,
                                   Some(content_item))>>
        ELSE <<>>

\* the entries pushed for one content item of a user message
UserItem(content_item) ==
    LET content_type == JGetStr(content_item, "type")
        text == JGetStr(content_item, "text")
    IN  IF content_type = Some("text") /\ text # None
        THEN <<NormalizedEntry(UserMessage, text[1], Some(content_item))>>
        ELSE <<>>

\* json.get("message") ... message.get("content").and_then(|c| c.as_array()):
\* the items the for loop walks, none when a step of the chain is None
ContentItems(json) ==
    LET message == JGet(json, "message")
        content == IF message = None THEN None ELSE JGet(message[1], "content")
        items == IF content = None THEN None ELSE JAsArray(content[1])
    IN  IF items = None THEN <<>> ELSE items[1]

RECURSIVE AssistantItems(_, _, _)
AssistantItems(items, worktree_path, fs) ==
    IF items = <<>> THEN <<>>
    ELSE AssistantItem(Head(items), worktree_path, fs)
         \o AssistantItems(Tail(items), worktree_path, fs)

RECURSIVE UserItems(_)
UserItems(items) ==
    IF items = <<>> THEN <<>>
    ELSE UserItem(Head(items)) \o UserItems(Tail(items))

\* the match on msg_type: the value of processed and the entries its arm pushes
ProcessMessage(json, worktree_path, fs) ==
    LET msg_type == JGetStr(json, "type")
        model == JGetStr(json, "model")
    IN  IF msg_type = Some("assistant")
        THEN [processed |-> TRUE,
              pushed |-> AssistantItems(ContentItems(json), worktree_path, fs)]
        ELSE IF msg_type = Some("user")
        THEN [processed |-> TRUE, pushed |-> UserItems(ContentItems(json))]
        ELSE IF msg_type = Some("system")
        THEN [processed |-> TRUE,
              pushed |->
                 IF JGetStr(json, "subtype") = Some("init")
                 THEN <<NormalizedEntry(SystemMessage,
                            "System initialized with model: "
                            \o (IF model = None THEN "unknown" ELSE model[1]),
                            Some(json))>>
                 ELSE <<>>]
        ELSE [processed |-> FALSE, pushed |-> <<>>]

\* faulty variant: a result line is an unrecognized line like any other
ProcessLine_keeps_result(text, worktree_path, fs) ==
    LET trimmed == Trim(text)
        parsed == from_str(trimmed)
    IN  IF trimmed = "" THEN <<>>
        ELSE IF parsed = None THEN <<RawOutput(trimmed)>>
        ELSE LET json == parsed[1]
                 message == ProcessMessage(json, worktree_path, fs)
             IN  IF message.processed THEN message.pushed
                 ELSE <<UnrecognizedJson(json, trimmed)>>

\* faulty variant: a line that is not JSON is dropped
ProcessLine_drops_raw(text, worktree_path, fs) ==
    LET trimmed == Trim(text)
        parsed == from_str(trimmed)
    IN  IF trimmed = "" THEN <<>>
        ELSE IF parsed = None THEN <<>>
        ELSE LET json == parsed[1]
                 message == ProcessMessage(json, worktree_path, fs)
             IN  IF message.processed THEN message.pushed
                 ELSE IF JGetStr(json, "type") = Some("result") THEN <<>>
                 ELSE <<UnrecognizedJson(json, trimmed)>>

\* the body of the for loop: the entries pushed for one line of the log
ProcessLine(text, worktree_path, fs) ==
    LET trimmed == Trim(text)
        parsed == from_str(trimmed)
    IN  IF trimmed = "" THEN <<>>
        ELSE IF parsed = None THEN <<RawOutput(trimmed)>>
        ELSE LET json == parsed[1]
                 message == ProcessMessage(json, worktree_path, fs)
             IN  IF message.processed THEN message.pushed
                 ELSE IF JGetStr(json, "type") = Some("result") THEN <<>>
                 ELSE <<UnrecognizedJson(json, trimmed)>>

\* faulty variant: every line with a session_id replaces the one held
ExtractSessionId_last_wins(session_id, text) ==
    LET parsed == from_str(Trim(text))
    IN  IF parsed = None THEN session_id
        ELSE IF JGetStr(parsed[1], "session_id") # None
        THEN JGetStr(parsed[1], "session_id")
        ELSE session_id

\* faulty variant: session_id is taken only from lines that are not dropped
\* as result lines
ExtractSessionId_skips_result_lines(session_id, text) ==
    LET parsed == from_str(Trim(text))
    IN  IF parsed = None THEN session_id
        ELSE IF session_id = None /\ JGetStr(parsed[1], "type") # Some("result")
        THEN JGetStr(parsed[1], "session_id")
        ELSE session_id

\* the body of the for loop: session_id after one line of the log
ExtractSessionId(session_id, text) ==
    LET parsed == from_str(Trim(text))
    IN  IF parsed = None THEN session_id
        ELSE IF session_id = None THEN JGetStr(parsed[1], "session_id")
        ELSE session_id

\* faulty variant: the entries of a line are put in front of those held
RECURSIVE NormalizeLoop_pushes_front(_, _, _, _, _)
NormalizeLoop_pushes_front(todo, entries, session_id, worktree_path, fs) ==
    IF todo = <<>> THEN [entries |-> entries, session_id |-> session_id]
    ELSE NormalizeLoop_pushes_front(Tail(todo),
                       ProcessLine(Head(todo), worktree_path, fs) \o entries,
                       ExtractSessionId(session_id, Head(todo)),
                       worktree_path, fs)

\* the for loop over logs.lines(), from the entries and session_id held so far
RECURSIVE NormalizeLoop(_, _, _, _, _)
NormalizeLoop(todo, entries, session_id, worktree_path, fs) ==
    IF todo = <<>> THEN [entries |-> entries, session_id |-> session_id]
    ELSE NormalizeLoop(Tail(todo),
                       entries \o ProcessLine(Head(todo), worktree_path, fs),
                       ExtractSessionId(session_id, Head(todo)),
                       worktree_path, fs)

\* Result<NormalizedConversation, String>
OkConversation(conversation) == [ok |-> TRUE, value |-> conversation]

\* faulty variant: a line that is not JSON makes the call fail
normalize_logs_rejects_bad_line(executor_type, logs, worktree_path, fs) ==
    LET out == NormalizeLoop(lines(logs), <<>>, None, worktree_path, fs)
        todo == lines(logs)
    IN  IF \E i \in DOMAIN todo : Trim(todo[i]) # "" /\ from_str(Trim(todo[i])) = None
        THEN [ok |-> FALSE, error |-> "invalid JSON"]
        ELSE OkConversation(
                 NormalizedConversation(out.entries, out.session_id, executor_type))

\* faulty variant: the raw-output entries are held back and put after the
\* entries of the JSON lines
normalize_logs_reports_raw_last(executor_type, logs, worktree_path, fs) ==
    LET out == NormalizeLoop(lines(logs), <<>>, None, worktree_path, fs)
        raw(entry) == entry.metadata = None
        json(entry) == entry.metadata # None
    IN  OkConversation(NormalizedConversation(
            SelectSeq(out.entries, json) \o SelectSeq(out.entries, raw),
            out.session_id, executor_type))

normalize_logs(executor_type, logs, worktree_path, fs) ==
    LET out == NormalizeLoop(lines(logs), <<>>, None, worktree_path, fs)
    IN  OkConversation(NormalizedConversation(out.entries, out.session_id, executor_type))

----------------------------------------------------------------------------
(* Calls of normalize_logs on the log of one execution: the log text, the  *)
(* worktree and the file system are the inputs; the file system changes    *)
(* between calls, and calls on another log come in between                 *)

\* the lines that are put together freely
CoreLines ==
    {BlankLine, RawLine, InitLine, AssistantTextLine, ResultLine, UnknownLine}

\* the log of test_normalize_logs_ignores_result_type, line by line
TestLogLines == <<InitLine, AssistantTextLine, ResultLine, UnknownLine>>

\* the logs of the model, as sequences of lines: the core lines in every
\* order, every other line alone and next to a core line, the test log
LogLines ==
    SeqsUpTo(CoreLines, MaxLogLines)
    \cup {<<l>> : l \in AllLines}
    \cup {<<l, c>> : l \in AllLines, c \in CoreLines}
    \cup {<<c, l>> : c \in CoreLines, l \in AllLines}
    \cup {TestLogLines}

\* the log texts: lines separated by line feeds, CR LF after a lone line,
\* with and without a line feed at the end
Logs ==
    {Join(ls, "\n") : ls \in LogLines}
    \cup {l \o "\n" : l \in AllLines}
    \cup {l \o "\r\n" : l \in AllLines}

\* the log of another execution, normalised between two calls
InterveningLog == "{\"type\":\"unknown\",\"session_id\":\"other\"}"

WorktreePaths == {"/tmp/wt"}

NoLaunch ==
    /\ LOCAL_CLAUDE_CODE = None
    /\ env = [config |-> NoConfigFile, which |-> WhichEmpty, existing |-> {}]
    /\ exec \in {CHOOSE e \in ClaudeExecutors : e.command = None /\ ~e.use_plan_mode}
    /\ pc = "idle"
    /\ launches = 0
    /\ prompt = ""
    /\ primary_command = ""
    /\ is_fallback = FALSE
    /\ claude_command = ""
    /\ attempt = 0
    /\ children = <<>>
    /\ trace = <<>>
    /\ result = None
    /\ found = {}

InitNormalize ==
    /\ log_text \in Logs
    /\ worktree \in WorktreePaths
    /\ files \in FileSystems
    /\ normalized = None
    /\ call_logs = ""
    /\ call_files = [symlinks |-> {}, exists |-> {}]
    /\ ncalls = 0
    /\ first_call = None
    /\ between = 0
    /\ NoLaunch
    /\ NoScript
    /\ NoToolCalls
    /\ NoResolverCalls

\* faulty variant: the entries and session_id of the call before are kept
NormalizeCall_keeps_buffers ==
    /\ ncalls < MaxCalls
    /\ \E logs \in {log_text, InterveningLog} :
        LET held == IF normalized = None
                    THEN [entries |-> <<>>, session_id |-> None]
                    ELSE normalized[1].value
            out == NormalizeLoop(lines(logs), held.entries, held.session_id,
                                 worktree, files)
            returned == OkConversation(
                            NormalizedConversation(out.entries, out.session_id, "Claude"))
        IN  /\ normalized' = Some(returned)
            /\ call_logs' = logs
            /\ call_files' = files
            /\ first_call' = IF logs = log_text /\ first_call = None
                             THEN Some([files |-> files, returned |-> returned])
                             ELSE first_call
            /\ between' = IF logs # log_text /\ first_call # None
                          THEN between + 1
                          ELSE between
    /\ ncalls' = ncalls + 1
    /\ UNCHANGED <<log_text, worktree, files>>
    /\ UNCHANGED <<launchVars, scriptVars, toolVars, resolveVars>>

\* ClaudeExecutor::new().normalize_logs(logs, worktree_path), on the log of the
\* execution or on another log
NormalizeCall ==
    /\ ncalls < MaxCalls
    /\ \E logs \in {log_text, InterveningLog} :
        LET returned == normalize_logs("Claude", logs, worktree, files)
        IN  /\ normalized' = Some(returned)
            /\ call_logs' = logs
            /\ call_files' = files
            /\ first_call' = IF logs = log_text /\ first_call = None
                             THEN Some([files |-> files, returned |-> returned])
                             ELSE first_call
            /\ between' = IF logs # log_text /\ first_call # None
                          THEN between + 1
                          ELSE between
    /\ ncalls' = ncalls + 1
    /\ UNCHANGED <<log_text, worktree, files>>
    /\ UNCHANGED <<launchVars, scriptVars, toolVars, resolveVars>>

\* files and links appear or go away between calls
FilesChange ==
    /\ ncalls > 0
    /\ \E f \in FileSystems : f # files /\ files' = f
    /\ UNCHANGED <<log_text, worktree, normalized, call_logs, call_files, ncalls,
                   first_call, between>>
    /\ UNCHANGED <<launchVars, scriptVars, toolVars, resolveVars>>

NextNormalize ==
    \/ NormalizeCall
    \/ FilesChange

SpecNormalize == InitNormalize /\ [][NextNormalize]_vars

----------------------------------------------------------------------------
(* Calls of normalize_logs while the output of one execution accumulates:  *)
(* the captured text grows by whole lines, each call normalises the text   *)
(* captured so far, and the file system changes between calls              *)

\* the lines the execution writes
AccumulatedLines == {RawLine, InitLine, AssistantToolLine, ResultLine}

InitAccumulate ==
    /\ log_text = ""
    /\ worktree \in WorktreePaths
    /\ files \in FileSystems
    /\ normalized = None
    /\ call_logs = ""
    /\ call_files = [symlinks |-> {}, exists |-> {}]
    /\ ncalls = 0
    /\ first_call = None
    /\ between = 0
    /\ NoLaunch
    /\ NoScript
    /\ NoToolCalls
    /\ NoResolverCalls

\* the execution writes one more line, line feed included
OutputAccumulates ==
    /\ Len(lines(log_text)) < MaxLogLines
    /\ \E l \in AccumulatedLines : log_text' = log_text \o l \o "\n"
    /\ UNCHANGED <<worktree, files, normalized, call_logs, call_files, ncalls,
                   first_call, between>>
    /\ UNCHANGED <<launchVars, scriptVars, toolVars, resolveVars>>

\* ClaudeExecutor::new().normalize_logs(logs, worktree_path) on the text
\* captured so far; first_call keeps the first call and its text
AccumulateCall ==
    /\ ncalls < MaxCalls
    /\ LET returned == normalize_logs("Claude", log_text, worktree, files)
       IN  /\ normalized' = Some(returned)
           /\ call_logs' = log_text
           /\ call_files' = files
           /\ first_call' = IF first_call = None
                            THEN Some([files |-> files, returned |-> returned,
                                       logs |-> log_text])
                            ELSE first_call
    /\ ncalls' = ncalls + 1
    /\ UNCHANGED <<log_text, worktree, files, between>>
    /\ UNCHANGED <<launchVars, scriptVars, toolVars, resolveVars>>

NextAccumulate ==
    \/ OutputAccumulates
    \/ AccumulateCall
    \/ FilesChange

SpecAccumulate == InitAccumulate /\ [][NextAccumulate]_vars

----------------------------------------------------------------------------
(* Tool invocations entered one at a time, as the content walk of          *)
(* normalize_logs enters them (extract_action_type, then                   *)
(* generate_concise_content on its result), and direct calls of            *)
(* make_path_relative                                                      *)

\* tool names as agents write them, in several spellings, and names no arm
\* of the match knows
ToolNames ==
    {"Read", "READ", "Edit", "write", "MultiEdit", "Bash", "Grep", "Glob",
     "WebFetch", "Task", "exit_plan_mode", "TodoWrite", "todoread", "LS",
     "codebase_search_agent", "Foo", "foo"}

\* the todos of test_todo_tool_content_extraction
ThreeTodos ==
    JObj([todos |-> JArr(<<
        JObj([id |-> JStr("1"), content |-> JStr("Fix the navigation bug"),
              status |-> JStr("completed"), priority |-> JStr("high")]),
        JObj([id |-> JStr("2"), content |-> JStr("Add user authentication"),
              status |-> JStr("in_progress"), priority |-> JStr("medium")]),
        JObj([id |-> JStr("3"), content |-> JStr("Write documentation"),
              status |-> JStr("pending"), priority |-> JStr("low")])>>)])

\* test_todo_tool_empty_list and test_todo_tool_no_todos_field
EmptyTodos == JObj([todos |-> JArr(<<>>)])
NoTodosField == JObj([other_field |-> JStr("value")])

\* todos that are no array, and todos with fields missing or of another type
TodosNotArray == JObj([todos |-> JStr("later")])
SparseTodos ==
    JObj([todos |-> JArr(<<
        JObj([content |-> JStr("A"), status |-> JStr("blocked"),
              priority |-> JNum(1)]),
        JObj([status |-> JStr("pending"), priority |-> JStr("low")]),
        JObj([content |-> JStr("C")]),
        JStr("D")>>)])
TodosWithoutContent ==
    JObj([todos |-> JArr(<<JObj([status |-> JStr("pending")]),
                           JObj([content |-> JNum(4), status |-> JStr("todo")])>>)])

TodoInputs ==
    {ThreeTodos, EmptyTodos, NoTodosField, TodosNotArray, SparseTodos,
     TodosWithoutContent}

\* the input of a tool_use item: no value, values that are no object, objects
\* with the field an arm reads present as a string, present as another type,
\* or absent
ToolInputs ==
    {JNull, JStr("a.rs"), JArr(<<JStr("a.rs")>>), JObj(<<>>),
     JObj([file_path |-> JStr("/tmp/wt/src/main.rs")]),
     JObj([file_path |-> JStr("/private/tmp/wt/a.rs")]),
     JObj([file_path |-> JStr("")]),
     JObj([file_path |-> JNum(7), path |-> JStr("/tmp/wt/b.rs")]),
     JObj([file_path |-> JNum(7)]),
     JObj([path |-> JStr("/tmp/wt")]),
     JObj([path |-> JNull]),
     JObj([command |-> JStr("cargo test")]),
     JObj([command |-> JArr(<<JStr("cargo"), JStr("test")>>)]),
     JObj([pattern |-> JStr("*.rs")]),
     JObj([pattern |-> JStr("*.rs"), path |-> JStr("/tmp/wt/src")]),
     JObj([pattern |-> JNum(7)]),
     JObj([url |-> JStr("https://example.com")]),
     JObj([url |-> JNull]),
     JObj([description |-> JStr("Find the bug")]),
     JObj([description |-> JNum(7), prompt |-> JStr("Look at main.rs")]),
     JObj([plan |-> JStr("1. Fix it")]),
     JObj([plan |-> JObj([steps |-> JArr(<<>>)])]),
     JObj([query |-> JStr("where is main")])}
    \cup TodoInputs

\* paths given to make_path_relative: relative, under the worktree as written,
\* under it through a link, beside it, and nowhere. A relative worktree path
\* is resolved from a current directory that has no such entry.
Paths ==
    {"src/main.rs", "", "/tmp/wt/src/main.rs", "/tmp/wt/src//main.rs", "/tmp/wt",
     "/tmp/wt/", "/tmp/wt/a.rs", "/tmp/wtx/a.rs", "/private/tmp/wt/a.rs",
     "/private/tmp/wt/missing.rs", "/nonexistent/p"}

ToolWorktreePaths == {"/tmp/wt", "/tmp/wt/", "/private/tmp/wt", "wt"}

InitTools ==
    /\ tool_call = None
    /\ earlier_call = None
    /\ path_call = None
    /\ worktree \in ToolWorktreePaths
    /\ files \in FileSystems
    /\ log_text = ""
    /\ normalized = None
    /\ call_logs = ""
    /\ call_files = [symlinks |-> {}, exists |-> {}]
    /\ ncalls = 0
    /\ first_call = None
    /\ between = 0
    /\ NoLaunch
    /\ NoScript
    /\ NoResolverCalls

\* the tool_use arm of the content walk, first call: the name and the input
\* of the item go to extract_action_type
ExtractActionType ==
    /\ tool_call = None
    /\ path_call = None
    /\ \E tool_name \in ToolNames, input \in ToolInputs :
          tool_call' = Some([tool_name |-> tool_name, input |-> input,
                             action_type |->
                                 extract_action_type(tool_name, input, worktree, files),
                             content |-> None])
    /\ UNCHANGED <<earlier_call, path_call>>
    /\ UNCHANGED <<launchVars, scriptVars, normVars, resolveVars>>

\* the tool_use arm, second call: generate_concise_content receives the
\* ActionType extract_action_type returned for the same name and input
GenerateConciseContent ==
    /\ tool_call # None
    /\ tool_call[1].content = None
    /\ tool_call' =
          Some([tool_call[1] EXCEPT
                   !.content = Some(generate_concise_content(
                                        tool_call[1].tool_name, tool_call[1].input,
                                        tool_call[1].action_type, worktree, files))])
    /\ UNCHANGED <<earlier_call, path_call>>
    /\ UNCHANGED <<launchVars, scriptVars, normVars, resolveVars>>

\* a later tool_use item with the same input and the tool name written
\* another way, or another tool name
ExtractActionTypeAgain ==
    /\ tool_call # None
    /\ earlier_call = None
    /\ \E tool_name \in ToolNames \ {tool_call[1].tool_name} :
          tool_call' = Some([tool_name |-> tool_name, input |-> tool_call[1].input,
                             action_type |->
                                 extract_action_type(tool_name, tool_call[1].input,
                                                     worktree, files),
                             content |-> None])
    /\ earlier_call' = Some([tool_name |-> tool_call[1].tool_name,
                             action_type |-> tool_call[1].action_type])
    /\ UNCHANGED path_call
    /\ UNCHANGED <<launchVars, scriptVars, normVars, resolveVars>>

\* executor.make_path_relative(path, worktree_path), as test_make_path_relative
\* calls it
MakePathRelative ==
    /\ tool_call = None
    /\ \E path \in Paths :
          path_call' = Some([path |-> path,
                             returned |-> make_path_relative(path, worktree, files)])
    /\ UNCHANGED <<tool_call, earlier_call>>
    /\ UNCHANGED <<launchVars, scriptVars, normVars, resolveVars>>

NextTools ==
    \/ ExtractActionType
    \/ GenerateConciseContent
    \/ ExtractActionTypeAgain
    \/ MakePathRelative

SpecTools == InitTools /\ [][NextTools]_vars

----------------------------------------------------------------------------
(* Calls of get_claude_command that run side by side: the launches of      *)
(* several executors are tasks of one process, each call gives way at its  *)
(* awaits (the read of ~/.claude.json, the probe), and all share            *)
(* LOCAL_CLAUDE_CODE and the environment                                   *)

CallIds == 1..MaxResolverCalls

\* the environments of these calls: nothing installed, an installation on
\* PATH, one in a common location, a configured path
ResolverEnvs ==
    {[config |-> NoConfigFile, which |-> WhichEmpty, existing |-> {}],
     [config |-> NoConfigFile, which |-> WhichFound, existing |-> {}],
     [config |-> NoConfigFile, which |-> WhichFailed,
      existing |-> {"/home/u/.local/bin/claude-code"}],
     [config |-> ConfiguredPath, which |-> WhichFound, existing |-> {}]}

\* a call that has not begun
IdleCall ==
    [pc |-> "idle", use_plan_mode |-> FALSE, after |-> {}, config_path |-> None,
     probe_env |-> None, probed |-> None, returned |-> None]

InitResolve ==
    /\ calls = [c \in CallIds |-> IdleCall]
    /\ env_changes = 0
    /\ LOCAL_CLAUDE_CODE = None
    /\ env \in ResolverEnvs
    /\ exec \in {CHOOSE e \in ClaudeExecutors : e.command = None /\ ~e.use_plan_mode}
    /\ pc = "idle"
    /\ launches = 0
    /\ prompt = ""
    /\ primary_command = ""
    /\ is_fallback = FALSE
    /\ claude_command = ""
    /\ attempt = 0
    /\ children = <<>>
    /\ trace = <<>>
    /\ result = None
    /\ found = {}
    /\ NoScript
    /\ NoNormalization
    /\ NoToolCalls

\* what a call leaves alone of the launch in progress: these calls are seen
\* apart from the launches that make them
launchOnlyVars ==
    <<exec, pc, launches, prompt, primary_command, is_fallback, claude_command,
      attempt, children, trace, result, found>>

\* get_claude_command(use_plan_mode) is called; after holds the calls that
\* had returned by then
CallBegin(c) ==
    /\ calls[c].pc = "idle"
    /\ \E use_plan_mode \in BOOLEAN :
          calls' = [calls EXCEPT ![c] =
                       [@ EXCEPT !.pc = "config", !.use_plan_mode = use_plan_mode,
                                 !.after = {d \in CallIds : calls[d].pc = "done"}]]
    /\ UNCHANGED <<LOCAL_CLAUDE_CODE, env, env_changes>>
    /\ UNCHANGED <<launchOnlyVars, scriptVars, normVars, toolVars>>

\* if let Some(config_path) = get_claude_config_path().await
CallReadConfig(c) ==
    /\ calls[c].pc = "config"
    /\ LET config_path == get_claude_config_path(env.config)
       IN  calls' = [calls EXCEPT ![c] =
               IF config_path # None
               THEN [@ EXCEPT !.pc = "done", !.config_path = Some(config_path),
                              !.returned = Some(build_claude_command(
                                               config_path[1], calls[c].use_plan_mode))]
               ELSE [@ EXCEPT !.pc = "memo", !.config_path = Some(config_path)]]
    /\ UNCHANGED <<LOCAL_CLAUDE_CODE, env, env_changes>>
    /\ UNCHANGED <<launchOnlyVars, scriptVars, normVars, toolVars>>

\* faulty variant: a call that finds the memo initialised by another call
\* takes it for a negative result and returns npx without a probe
CallGetOrInit_trusts_negative(c) ==
    /\ calls[c].pc = "memo"
    /\ LOCAL_CLAUDE_CODE' = IF LOCAL_CLAUDE_CODE = None THEN Some(None)
                            ELSE LOCAL_CLAUDE_CODE
    /\ calls' = [calls EXCEPT ![c] =
           IF LOCAL_CLAUDE_CODE = None
           THEN [@ EXCEPT !.pc = "detect"]
           ELSE [@ EXCEPT !.pc = "done",
                          !.returned = Some(build_claude_command(
                                           unwrap_or(LOCAL_CLAUDE_CODE[1], NPX_BASE),
                                           calls[c].use_plan_mode))]]
    /\ UNCHANGED <<env, env_changes>>
    /\ UNCHANGED <<launchOnlyVars, scriptVars, normVars, toolVars>>

\* LOCAL_CLAUDE_CODE.get_or_init(|| None) and the test of local_claude: a
\* held path is used, no held path leads to the probe
CallGetOrInit(c) ==
    /\ calls[c].pc = "memo"
    /\ LOCAL_CLAUDE_CODE' = IF LOCAL_CLAUDE_CODE = None THEN Some(None)
                            ELSE LOCAL_CLAUDE_CODE
    /\ calls' = [calls EXCEPT ![c] =
           IF LOCAL_CLAUDE_CODE' = Some(None)
           THEN [@ EXCEPT !.pc = "detect"]
           ELSE [@ EXCEPT !.pc = "done",
                          !.returned = Some(build_claude_command(
                                           LOCAL_CLAUDE_CODE'[1][1], calls[c].use_plan_mode))]]
    /\ UNCHANGED <<env, env_changes>>
    /\ UNCHANGED <<launchOnlyVars, scriptVars, normVars, toolVars>>

\* faulty variant: a probe that finds nothing stores the npx command in the
\* memo as if it were a path found
CallDetect_caches_negative(c) ==
    /\ calls[c].pc = "detect"
    /\ LET claude_path == detect_local_claude_code(env)
       IN  /\ calls' = [calls EXCEPT ![c] =
                  [@ EXCEPT !.pc = "done", !.probe_env = Some(env),
                            !.probed = Some(claude_path),
                            !.returned = Some(build_claude_command(
                                             unwrap_or(claude_path, NPX_BASE),
                                             calls[c].use_plan_mode))]]
           /\ LOCAL_CLAUDE_CODE' = IF claude_path = None THEN Some(Some(NPX_BASE))
                                   ELSE LOCAL_CLAUDE_CODE
    /\ UNCHANGED <<env, env_changes>>
    /\ UNCHANGED <<launchOnlyVars, scriptVars, normVars, toolVars>>

\* detect_local_claude_code().await and the return: the local installation
\* or npx; the memo is left as it is
CallDetect(c) ==
    /\ calls[c].pc = "detect"
    /\ LET claude_path == detect_local_claude_code(env)
       IN  calls' = [calls EXCEPT ![c] =
               [@ EXCEPT !.pc = "done", !.probe_env = Some(env),
                         !.probed = Some(claude_path),
                         !.returned = Some(build_claude_command(
                                          unwrap_or(claude_path, NPX_BASE),
                                          calls[c].use_plan_mode))]]
    /\ UNCHANGED <<LOCAL_CLAUDE_CODE, env, env_changes>>
    /\ UNCHANGED <<launchOnlyVars, scriptVars, normVars, toolVars>>

\* an installation or the configuration file appears or goes away while
\* calls are under way
ResolverEnvChange ==
    /\ env_changes < MaxEnvChanges
    /\ \E e \in ResolverEnvs \ {env} : env' = e
    /\ env_changes' = env_changes + 1
    /\ UNCHANGED <<LOCAL_CLAUDE_CODE, calls>>
    /\ UNCHANGED <<launchOnlyVars, scriptVars, normVars, toolVars>>

NextResolve ==
    \/ \E c \in CallIds : CallBegin(c)
    \/ \E c \in CallIds : CallReadConfig(c)
    \/ \E c \in CallIds : CallGetOrInit(c)
    \/ \E c \in CallIds : CallDetect(c)
    \/ ResolverEnvChange

SpecResolve == InitResolve /\ [][NextResolve]_vars

----------------------------------------------------------------------------
(* Vocabulary of the properties *)

\* the spawn attempts of the launch, in order
SpawnAttempts == SelectSeq(trace, LAMBDA ev : ev.op = "spawn")

\* the operations the launch has performed
Operations == {trace[i].op : i \in DOMAIN trace}

\* resolution has returned and the launch has not: env is the environment
\* the resolver saw
Resolved == pc \in {"spawn", "write", "close"}

\* resolution went through every step and ended at the universal fallback
EndedAtFallbackStep ==
    \E i \in DOMAIN trace : trace[i].op = "probe" /\ trace[i].found = None

\* the environment gives the resolver nothing to find
NoConfiguredPath(e) ==
    e.config \in {NoHomeDir, NoConfigFile, BadJsonConfig, NotAnObject, NoPathField,
                  NonStringPath}

NothingToDetect(e) ==
    \/ e.which = WhichCannotRun
    \/ /\ e.which \in {WhichFailed, WhichEmpty, WhichNotFound}
       /\ (e.existing = {} \/ e.config.home = None)

IsScriptText(command) == StartsWith(command, "#!/usr/bin/env bash\n")

\* the command line that reaches the agent: the value of command in a
\* watchkill script, the command itself otherwise
AgentCommand(command) ==
    IF IsScriptText(command) THEN ScriptVariable(command, "command") ELSE command

\* the errors one call of try_spawn_with_command can return for a command:
\* what the caller receives from a launch that made a single attempt
AttemptErrors(e, command) ==
    {ExecutorError("SpawnFailed", context, command) :
        context \in {SpawnErrorContext(e), WriteErrorContext(e), CloseErrorContext(e)}}

\* the base commands the flags are appended to: a configured path, a detected
\* installation, the bare name of a common location, the npx package
BaseCommands ==
    {"/cfg/bin/claude", "/opt/cc/bin/claude-code", "claude-code", NPX_BASE}

\* the flags of a command: what follows its base, without a resume flag
FlagsOf(command, base) ==
    LET rest == SubSeq(command, Len(base) + 1, Len(command))
        r == IndexOf(rest, " --resume=")
    IN  IF r = 0 THEN rest ELSE SubSeq(rest, 1, r - 1)

\* the last call of normalize_logs: its lines and what it returned
CallLines == lines(call_logs)
Called == normalized # None
Entries == normalized[1].value.entries

\* the line is not blank and is not JSON
Unparseable(text) == Trim(text) # "" /\ from_str(Trim(text)) = None

\* the line is JSON
Structured(text) == Trim(text) # "" /\ from_str(Trim(text)) # None

\* the value of a structured line and its type tag
ValueOf(text) == from_str(Trim(text))[1]
TypeTag(text) == JGetStr(ValueOf(text), "type")

IsMessageLine(text) ==
    Structured(text) /\ TypeTag(text) \in {Some("assistant"), Some("user")}

IsResultLine(text) == Structured(text) /\ TypeTag(text) = Some("result")

\* the entries the last call derived from one line
Contribution(text) == ProcessLine(text, worktree, call_files)

\* the contributions of lines, one after the other
RECURSIVE Contributions(_)
Contributions(ls) ==
    IF ls = <<>> THEN <<>> ELSE Contribution(Head(ls)) \o Contributions(Tail(ls))

\* sum over the non-blank lines of max(1, number of content items)
RECURSIVE EntryBound(_)
EntryBound(ls) ==
    IF ls = <<>> THEN 0
    ELSE (IF Trim(Head(ls)) = "" THEN 0
          ELSE IF IsMessageLine(Head(ls)) /\ Len(ContentItems(ValueOf(Head(ls)))) > 1
          THEN Len(ContentItems(ValueOf(Head(ls))))
          ELSE 1)
         + EntryBound(Tail(ls))

\* the line carries a session identifier: it is JSON with a string session_id
CarriesSessionId(text) ==
    Structured(text) /\ JGetStr(ValueOf(text), "session_id") # None

SessionIdOf(text) == JGetStr(ValueOf(text), "session_id")[1]

\* the line is JSON, no arm processes it and it is no result line: its type
\* is missing, is not a string, or is a string other than the four known
Unrecognized(text) ==
    /\ Structured(text)
    /\ TypeTag(text) \notin {Some("assistant"), Some("user"), Some("system"),
                              Some("result")}

\* the line has a known type tag and lacks what its arm looks for: a message
\* line without message or without an array of content, a system line whose
\* subtype is missing or is not init
HasContentArray(text) ==
    /\ JGet(ValueOf(text), "message") # None
    /\ JGet(JGet(ValueOf(text), "message")[1], "content") # None
    /\ JGet(JGet(ValueOf(text), "message")[1], "content")[1].t = "array"
LacksSubstructure(text) ==
    /\ Structured(text)
    /\ \/ IsMessageLine(text) /\ ~HasContentArray(text)
       \/ /\ TypeTag(text) = Some("system")
          /\ JGetStr(ValueOf(text), "subtype") # Some("init")

\* a content item by its kind: a text item has the type text and a string
\* text, a tool_use item has the type tool_use and a string name
HasStringField(v, key) == JGet(v, key) # None /\ JGet(v, key)[1].t = "string"
StringField(v, key) == JGet(v, key)[1].s
IsTextItem(item) ==
    /\ HasStringField(item, "type") /\ StringField(item, "type") = "text"
    /\ HasStringField(item, "text")
IsToolUseItem(item) ==
    /\ HasStringField(item, "type") /\ StringField(item, "type") = "tool_use"
    /\ HasStringField(item, "name")
InputOf(item) == IF JGet(item, "input") = None THEN JNull ELSE JGet(item, "input")[1]

\* the entry of a text item of an assistant or a user line
IsMessageEntry(entry, kind, item) ==
    /\ entry.entry_type = [type |-> kind]
    /\ entry.content = StringField(item, "text")
    /\ entry.metadata = Some(item)
    /\ entry.timestamp = None

\* the entry of a tool_use item: the name, what extract_action_type and
\* generate_concise_content return for that name, input and worktree
IsToolUseEntry(entry, item) ==
    LET tool_name == StringField(item, "name")
        action_type == extract_action_type(tool_name, InputOf(item), worktree, call_files)
    IN  /\ entry.entry_type = [type |-> "ToolUse", tool_name |-> tool_name,
                               action_type |-> action_type]
        /\ entry.content = generate_concise_content(tool_name, InputOf(item), action_type,
                                                    worktree, call_files)
        /\ entry.metadata = Some(item)
        /\ entry.timestamp = None

\* the items of a message line that yield an entry
YieldsEntry(text, item) ==
    \/ IsTextItem(item)
    \/ TypeTag(text) = Some("assistant") /\ IsToolUseItem(item)

IsUnrecognizedJson(entry) ==
    entry.entry_type = SystemMessage /\ StartsWith(entry.content, "Unrecognized JSON: ")

IsRawOutput(entry) ==
    entry.entry_type = SystemMessage /\ StartsWith(entry.content, "Raw output: ")

\* the entries the last call derived from one content item of a message line
ItemEntries(text, content_item) ==
    IF TypeTag(text) = Some("assistant")
    THEN AssistantItem(content_item, worktree, call_files)
    ELSE UserItem(content_item)

\* what each line of the last call contributed, and what each content item of
\* a message line contributed
LineParts == [i \in DOMAIN CallLines |-> Contribution(CallLines[i])]
ItemParts(text) ==
    [k \in DOMAIN ContentItems(ValueOf(text)) |->
        ItemEntries(text, ContentItems(ValueOf(text))[k])]

RECURSIVE TotalLen(_)
TotalLen(parts) == IF parts = <<>> THEN 0 ELSE Len(Head(parts)) + TotalLen(Tail(parts))

\* whole is made of the parts, each in one piece, in the order of the parts:
\* part i lies right after the parts before it
InOrderContiguous(parts, whole) ==
    /\ Len(whole) = TotalLen(parts)
    /\ \A i \in DOMAIN parts :
          SubSeq(whole, TotalLen(SubSeq(parts, 1, i - 1)) + 1,
                        TotalLen(SubSeq(parts, 1, i))) = parts[i]

\* the tool invocation entered and the one before it with the same input
Classified == tool_call # None
Invocation == tool_call[1]
Respelled == earlier_call # None
Earlier == earlier_call[1]

\* the names the match of extract_action_type has an arm for
KnownToolNames ==
    {"read", "edit", "write", "multiedit", "bash", "grep", "glob", "webfetch",
     "task", "exit_plan_mode"}

\* the values of ActionType
IsActionType(a) ==
    \/ a.kind \in {"FileRead", "FileWrite"} /\ DOMAIN a = {"kind", "path"}
    \/ a.kind = "CommandRun" /\ DOMAIN a = {"kind", "command"}
    \/ a.kind = "Search" /\ DOMAIN a = {"kind", "query"}
    \/ a.kind = "WebFetch" /\ DOMAIN a = {"kind", "url"}
    \/ a.kind = "TaskCreate" /\ DOMAIN a = {"kind", "description"}
    \/ a.kind = "PlanPresentation" /\ DOMAIN a = {"kind", "plan"}
    \/ a.kind = "Other" /\ DOMAIN a = {"kind", "description"}

\* a capital letter and its small letter
CasePairs ==
    {<<SubSeq("ABCDEFGHIJKLMNOPQRSTUVWXYZ", i, i),
       SubSeq("abcdefghijklmnopqrstuvwxyz", i, i)>> : i \in 1..Len("abcdefghijklmnopqrstuvwxyz")}

\* two names that differ at most in letter case
SameNameIgnoringCase(a, b) ==
    /\ Len(a) = Len(b)
    /\ \A i \in 1..Len(a) :
          \/ SubSeq(a, i, i) = SubSeq(b, i, i)
          \/ <<SubSeq(a, i, i), SubSeq(b, i, i)>> \in CasePairs
          \/ <<SubSeq(b, i, i), SubSeq(a, i, i)>> \in CasePairs

\* the name is a spelling of a name the match knows
IsKnownTool(tool_name) ==
    \E known \in KnownToolNames : SameNameIgnoringCase(known, tool_name)

\* the known name a tool name is a spelling of
KnownName(tool_name) ==
    CHOOSE known \in KnownToolNames : SameNameIgnoringCase(known, tool_name)

\* the argument fields a known tool takes its value from, in the order tried
RequiredFields(known) ==
    CASE known = "read" -> <<"file_path">>
      [] known \in {"edit", "write", "multiedit"} -> <<"file_path", "path">>
      [] known = "bash" -> <<"command">>
      [] known \in {"grep", "glob"} -> <<"pattern">>
      [] known = "webfetch" -> <<"url">>
      [] known = "task" -> <<"description", "prompt">>
      [] known = "exit_plan_mode" -> <<"plan">>

\* the description of the operation a known tool attempted
GenericDescription(known) ==
    CASE known = "read" -> "File read operation"
      [] known \in {"edit", "write", "multiedit"} -> "File write operation"
      [] known = "bash" -> "Command execution"
      [] known = "grep" -> "Search operation"
      [] known = "glob" -> "File pattern search"
      [] known = "webfetch" -> "Web fetch operation"
      [] known = "task" -> "Task creation"
      [] known = "exit_plan_mode" -> "Plan presentation"

\* the arguments are an object that holds a string under the key
HasString(input, key) ==
    /\ input.t = "object"
    /\ key \in DOMAIN input.o
    /\ input.o[key].t = "string"

\* every field the tool could take its value from is missing or no string
LacksRequired(known, input) ==
    \A i \in DOMAIN RequiredFields(known) : ~HasString(input, RequiredFields(known)[i])

\* generate_concise_content has returned for the invocation
Summarized == tool_call # None /\ tool_call[1].content # None
Summary == tool_call[1].content[1]

IsTodoTool(tool_name) ==
    \E known \in {"todoread", "todowrite"} : SameNameIgnoringCase(known, tool_name)

\* the todos list of the arguments, empty when the field is missing or holds
\* no list
TodoList(input) ==
    IF input.t = "object" /\ "todos" \in DOMAIN input.o /\ input.o.todos.t = "array"
    THEN input.o.todos.a
    ELSE <<>>

\* the string under a key of a todo, or the default
StringOr(todo, key, default) == IF HasString(todo, key) THEN todo.o[key].s ELSE default

\* the glyph of a status: done, in progress, pending, anything else
Glyph(status) ==
    CASE status = "completed" -> "(check-mark)"
      [] status = "in_progress" -> "(arrows)"
      [] status \in {"pending", "todo"} -> "(hourglass)"
      [] OTHER -> "(memo)"

\* the line of a todo: glyph, content, priority
TodoLine(todo) ==
    Glyph(StringOr(todo, "status", "pending")) \o " " \o StringOr(todo, "content", "")
    \o " (" \o StringOr(todo, "priority", "medium") \o ")"

\* the summary that shows the todos given
TodoSummary(todos) ==
    IF todos = <<>> THEN "Managing TODO list"
    ELSE "TODO List:\n" \o Join([i \in DOMAIN todos |-> TodoLine(todos[i])], "\n")

\* the last direct call of make_path_relative
Relativized == path_call # None
PathGiven == path_call[1].path
PathReturned == path_call[1].returned

\* base is a prefix of path by whole components, both absolute
IsUnder(path, base) ==
    /\ ~is_relative(path)
    /\ ~is_relative(base)
    /\ Len(Components(base)) <= Len(Components(path))
    /\ SubSeq(Components(path), 1, Len(Components(base))) = Components(base)

\* r is what is left of path after base: a relative path written in path
\* that, joined to base, gives path
IsRemainder(r, path, base) ==
    /\ is_relative(r)
    /\ Contains(path, r)
    /\ Components(base) \o Components(r) = Components(path)

\* both the path and the worktree path resolve, and the resolved worktree is
\* a prefix of the resolved path
IsUnderCanonically(path, base, fs) ==
    /\ canonicalize(path, fs) # None
    /\ canonicalize(base, fs) # None
    /\ IsUnder(canonicalize(path, fs)[1], canonicalize(base, fs)[1])

\* q begins with p
\* the first call while the output accumulated: the text it saw, the file
\* system it saw, its entries and session_id
FirstCalled == first_call # None
FirstLogs == first_call[1].logs
FirstFiles == first_call[1].files
FirstEntries == first_call[1].returned.value.entries
FirstSessionId == first_call[1].returned.value.session_id
SessionId == normalized[1].value.session_id

\* text t is text s, ended at a line boundary, and whole lines after it
ExtendsByWholeLines(s, t) ==
    /\ s = "" \/ EndsWith(s, "\n")
    /\ StartsWith(t, s)
    /\ t = s \/ EndsWith(t, "\n")

\* the line can supply the session identifier: it parses and the value has a
\* session_id that is a string
Supplies(text) ==
    /\ Trim(text) # ""
    /\ from_str(Trim(text)) # None
    /\ HasStringField(from_str(Trim(text))[1], "session_id")
Supplied(text) == StringField(from_str(Trim(text))[1], "session_id")

IsPrefix(p, q) == Len(p) <= Len(q) /\ SubSeq(q, 1, Len(p)) = p

\* the places of the lines of $command that hold the sentinel phrase
SentinelLines == {i \in DOMAIN produced : Contains(produced[i], claude_plan_stop_indicator)}

\* the calls of get_claude_command
Returning(c) == calls[c].pc = "done"
CommandReturned(c) == calls[c].returned[1]
\* the call found no configured path and went on to the memo
FoundNoConfiguredPath(c) == calls[c].config_path = Some(None)
\* the call ran the probe, and what the probe found
Probed(c) == calls[c].probed # None
ProbeFound(c) == calls[c].probed[1]
\* a began after b had returned
BeganAfter(a, b) == b \in calls[a].after
\* the command for an installation at path, by its text
CommandOf(path, use_plan_mode) ==
    path \o " -p "
         \o (IF use_plan_mode THEN "--permission-mode=plan"
            ELSE "--dangerously-skip-permissions")
         \o " --verbose --output-format=stream-json"
UniversalFallback(use_plan_mode) ==
    CommandOf("npx -y @anthropic-ai/claude-code@latest", use_plan_mode)
\* what one call alone returns in environment e
SequentialCommand(e, use_plan_mode) ==
    LET config_path == get_claude_config_path(e.config)
        claude_path == detect_local_claude_code(e)
    IN  IF config_path # None THEN CommandOf(config_path[1], use_plan_mode)
        ELSE IF claude_path # None THEN CommandOf(claude_path[1], use_plan_mode)
        ELSE UniversalFallback(use_plan_mode)
\* the memo holds a path
MemoHoldsPath == LOCAL_CLAUDE_CODE # None /\ LOCAL_CLAUDE_CODE[1] # None

Returned == result # None
ReturnedOk == result # None /\ result[1].ok
ReturnedErr == result # None /\ ~result[1].ok

----------------------------------------------------------------------------
(* C1: if the primary command is not the universal fallback and its spawn   *)
(* fails, exactly one further spawn attempt is made, with the universal     *)
(* fallback command, before the launch returns; if the primary command is   *)
(* the universal fallback there is no further attempt and the primary's     *)
(* error is returned; no launch makes more than two spawn attempts.         *)
C1_SpawnFallbackPolicy ==
    LET spawns == SpawnAttempts
    IN  /\ Len(spawns) <= 2
        /\ (Returned /\ Len(spawns) >= 1 /\ ~spawns[1].ok) =>
              IF EndedAtFallbackStep
              THEN /\ Len(spawns) = 1
                   /\ ReturnedErr
                   /\ result[1].err.command = primary_command
              ELSE /\ Len(spawns) = 2
                   /\ Contains(spawns[2].command, NPX_BASE)

(* C2: once a probe of this process has found an installation, no later     *)
(* resolver call runs the probe, and a later call without override and      *)
(* without configured path returns the command built from the found path.   *)
C2_PositiveProbeCached ==
    /\ pc = "detect" => found = {}
    /\ (Resolved /\ attempt = 1 /\ exec.command = None /\ NoConfiguredPath(env)
        /\ found # {})
          => \E path \in found :
                primary_command =
                    DynamicCommand(exec, build_claude_command(path, exec.use_plan_mode))

(* C3: resolution takes the first satisfied step of: explicit override      *)
(* (used as it is, no configuration read, no probe), configured path (no    *)
(* probe), detected local installation, universal fallback; the fallback    *)
(* is chosen exactly when none of the three earlier steps is satisfied.     *)
C3_ResolutionPriority ==
    (Resolved /\ attempt = 1) =>
        LET mode == exec.use_plan_mode
            flag == IF exec.variant = "resume" THEN " --resume=" \o exec.session_id
                    ELSE ""
            local == detect_local_claude_code(env)
            npx == DynamicCommand(exec, build_claude_command(NPX_BASE, mode))
        IN  /\ exec.command # None =>
                /\ primary_command = exec.command[1] \o flag
                /\ Operations \cap {"config_read", "probe"} = {}
            /\ (exec.command = None /\ env.config = ConfiguredPath) =>
                /\ primary_command =
                       DynamicCommand(exec, build_claude_command("/cfg/bin/claude", mode))
                /\ "probe" \notin Operations
            /\ (exec.command = None /\ NoConfiguredPath(env) /\ local # None) =>
                /\ primary_command =
                       DynamicCommand(exec, build_claude_command(local[1], mode))
            /\ primary_command = npx
                 <=> (exec.command = None /\ NoConfiguredPath(env) /\ local = None)

C3_Witness ==
    /\ Resolved /\ attempt = 1
    /\ exec.command = None
    /\ env.config = ConfiguredPath
    /\ env.which = WhichFound
    /\ primary_command =
           build_claude_command("/cfg/bin/claude", FALSE)

(* C4: resolution never fails and always ends, after at most one            *)
(* configuration read and one probe, with a complete command: a             *)
(* missing or unparseable configuration file, a configuration without the   *)
(* path field, a probe that cannot run and a probe that finds nothing are   *)
(* steps not satisfied, and then the result is the universal fallback       *)
(* command with the flags of the mode.                                      *)
C4_ResolutionTotal ==
    /\ pc \in {"get_command", "detect"} => result = None
    /\ \A i, j \in DOMAIN trace :
          (trace[i].op \in {"config_read", "probe"} /\ trace[i].op = trace[j].op) => i = j
    /\ (Resolved /\ attempt = 1 /\ exec.command = None) =>
          /\ result = None
          /\ Contains(AgentCommand(primary_command), " -p ")
          /\ Contains(AgentCommand(primary_command), "--output-format=stream-json")
          /\ (NoConfiguredPath(env) /\ NothingToDetect(env)) =>
                AgentCommand(primary_command) =
                    build_claude_command(NPX_BASE, exec.use_plan_mode)
                    \o (IF exec.variant = "resume" THEN " --resume=" \o exec.session_id
                        ELSE "")

C4_Witness ==
    /\ Resolved /\ attempt = 1
    /\ exec.command = None
    /\ env.config = NoConfigFile
    /\ env.which = WhichCannotRun
    /\ env.existing # {}
    /\ primary_command = build_claude_command(NPX_BASE, FALSE)

(* C5: when no output line contains the sentinel phrase, the watchkill      *)
(* script exits with exactly the exit status of the command it wraps.       *)
C5_ExitStatusPropagated ==
    (/\ wpc = "exited"
     /\ \A i \in DOMAIN relayed : ~Contains(relayed[i], claude_plan_stop_indicator))
        => exit_status = Some(subproc.status)

(* C6: as soon as a relayed line contains the sentinel phrase the script    *)
(* has exited with status 0, whether or not the wrapped command exits, and  *)
(* no line after the first sentinel line is relayed.                        *)
C6_SentinelExit ==
    \A i \in DOMAIN relayed :
        Contains(relayed[i], claude_plan_stop_indicator) =>
            /\ i = Len(relayed)
            /\ wpc = "exited"
            /\ exit_status = Some(0)

C6_Witness ==
    /\ wpc = "exited"
    /\ exit_status = Some(0)
    /\ Len(relayed) = 2
    /\ Contains(relayed[2], claude_plan_stop_indicator)
    /\ subproc.state = "paused"
    /\ pipe.lines # <<>>

(* C7: a launch returns a process handle only after, on that child and in   *)
(* this order, the spawn succeeded, the whole prompt was written to its     *)
(* standard input and that stream was closed; no write is attempted before  *)
(* a successful spawn and no close before a successful write.               *)
C7_SpawnWriteCloseOrder ==
    /\ \A i \in DOMAIN trace :
          trace[i].op = "write" =>
              /\ i > 1
              /\ trace[i - 1].op = "spawn" /\ trace[i - 1].ok
              /\ trace[i - 1].child = trace[i].child
    /\ \A i \in DOMAIN trace :
          trace[i].op = "close" =>
              /\ i > 1
              /\ trace[i - 1].op = "write" /\ trace[i - 1].ok
              /\ trace[i - 1].child = trace[i].child
    /\ ReturnedOk =>
          LET c == result[1].child
              n == Len(trace)
          IN  /\ n >= 3
              /\ trace[n - 2].op = "spawn" /\ trace[n - 2].ok /\ trace[n - 2].child = c
              /\ trace[n - 1].op = "write" /\ trace[n - 1].ok /\ trace[n - 1].child = c
              /\ trace[n].op = "close" /\ trace[n].ok /\ trace[n].child = c
              /\ children[c].alive
              /\ children[c].stdin = prompt
              /\ ~children[c].stdin_open

C7_Witness ==
    /\ ReturnedOk
    /\ result[1].child = 1
    /\ exec.variant = "new"
    /\ children[1].stdin = "project_id: p1\n            \nTask title: Fix\nTask description: the bug"
    /\ ~children[1].stdin_open

(* C8: a failure to write the prompt and a failure to close the stream are  *)
(* each returned to the caller as an error, told apart from each other and  *)
(* from a spawn failure; the launch never returns success after one.        *)
C8_StdinFailurePropagates ==
    /\ WriteErrorContext(exec) # CloseErrorContext(exec)
    /\ WriteErrorContext(exec) # SpawnErrorContext(exec)
    /\ CloseErrorContext(exec) # SpawnErrorContext(exec)
    /\ Returned =>
          \A i \in DOMAIN trace :
              (trace[i].op \in {"write", "close"} /\ ~trace[i].ok) =>
                  /\ ReturnedErr
                  /\ result[1].err.context =
                         IF trace[i].op = "write" THEN WriteErrorContext(exec)
                         ELSE CloseErrorContext(exec)

(* C9: a launch spawns at most one child process: the fallback command is   *)
(* spawned only when the spawn of the primary command failed, never after   *)
(* the primary child exists.                                                *)
C9_SingleChildPerLaunch ==
    /\ Len(children) <= 1
    /\ LET spawns == SpawnAttempts
       IN  Len(spawns) = 2 => ~spawns[1].ok

(* C10: every command spawned by a resume launch, primary or fallback,      *)
(* carries the resume flag with the session identifier, appended before     *)
(* wrapping: in plan mode it is in the command inside the watchkill script; *)
(* a new-task launch spawns no command with a resume flag.                  *)
C10_ResumeFlag ==
    \A i \in DOMAIN trace :
        trace[i].op = "spawn" =>
            LET cmd == trace[i].command
            IN  IF exec.variant = "resume"
                THEN /\ EndsWith(AgentCommand(cmd), " --resume=" \o exec.session_id)
                     /\ exec.use_plan_mode =>
                            /\ IsScriptText(cmd)
                            /\ cmd = create_watchkill_script(AgentCommand(cmd))
                ELSE ~Contains(cmd, "--resume")

C10_Witness ==
    /\ exec.variant = "resume"
    /\ exec.use_plan_mode
    /\ Len(SpawnAttempts) = 2
    /\ IsScriptText(SpawnAttempts[2].command)
    /\ AgentCommand(SpawnAttempts[2].command) =
           "npx -y @anthropic-ai/claude-code@latest -p --permission-mode=plan --verbose --output-format=stream-json --resume=5f2a"

(* C11: in a new-task launch whose task lookup finds no task, the launch    *)
(* returns the task-not-found error at once: the lookup is its only         *)
(* operation, no command is resolved, no spawn is attempted (neither the    *)
(* primary nor the fallback one) and no process exists.                     *)
C11_TaskNotFoundStopsLaunch ==
    (\E i \in DOMAIN trace : trace[i].op = "find_task" /\ trace[i].kind = "not_found") =>
        /\ pc = "done"
        /\ ReturnedErr
        /\ result[1].err.kind = "TaskNotFound"
        /\ Operations = {"find_task"}
        /\ SpawnAttempts = <<>>
        /\ children = <<>>
        /\ primary_command = "" /\ claude_command = "" /\ attempt = 0

C11_Witness ==
    /\ exec.variant = "new"
    /\ trace = <<[op |-> "find_task", kind |-> "not_found"]>>
    /\ ReturnedErr
    /\ result[1].err.kind = "TaskNotFound"

(* C12: a launch that made a fallback retry returns an error only if the    *)
(* retry failed too; the error returned is then the one of the fallback     *)
(* attempt, and it is marked as a fallback failure: it is none of the       *)
(* errors a launch with a single attempt returns.                           *)
C12_FallbackFailureAnnotated ==
    LET spawns == SpawnAttempts
        last == trace[Len(trace)]
    IN  (ReturnedErr /\ Len(spawns) = 2) =>
            /\ last.attempt = 2 /\ ~last.ok
            /\ result[1].err.command = spawns[2].command
            /\ result[1].err \notin AttemptErrors(exec, spawns[2].command)

(* C13: the flags of a built command depend on the mode alone. Every        *)
(* command a launch spawns that was built from a base command is that base  *)
(* followed by the flags of the launch's mode: in default mode they hold    *)
(* the stream-json output flag and the permission bypass flag and not the   *)
(* plan permission flag, in plan mode the stream-json output flag and the   *)
(* plan permission flag and not the bypass flag; two built commands of one  *)
(* launch have the same flags; no spawned command holds both the bypass     *)
(* and the plan flag.                                                       *)
C13_FlagsDependOnModeOnly ==
    \A i \in DOMAIN trace : trace[i].op = "spawn" =>
        LET c == AgentCommand(trace[i].command)
            built == exec.command = None \/ trace[i].attempt = 2
        IN  /\ ~(Contains(c, "--dangerously-skip-permissions")
                   /\ Contains(c, "--permission-mode=plan"))
            /\ built =>
                 \E base \in BaseCommands :
                    /\ StartsWith(c, base \o " -")
                    /\ LET flags == FlagsOf(c, base)
                       IN  /\ Contains(flags, "--output-format=stream-json")
                           /\ Contains(flags, "--permission-mode=plan") = exec.use_plan_mode
                           /\ Contains(flags, "--dangerously-skip-permissions")
                                  = ~exec.use_plan_mode
                           /\ \A b \in BaseCommands :
                                  build_claude_command(b, exec.use_plan_mode) = b \o flags

C13_Witness ==
    /\ exec.use_plan_mode
    /\ Len(SpawnAttempts) = 2
    /\ StartsWith(AgentCommand(SpawnAttempts[1].command), "/cfg/bin/claude -p")
    /\ StartsWith(AgentCommand(SpawnAttempts[2].command), NPX_BASE \o " -p")

(* C14: normalize_logs is total. Whatever the log text (empty, blank lines, *)
(* text that is not JSON, truncated JSON, JSON that is not an object,       *)
(* objects with missing or wrongly typed fields), every call returns Ok     *)
(* with a NormalizedConversation, never Err; the lines that are not JSON    *)
(* are in it as raw-output SystemMessage entries, one for each, in order.   *)
C14_NormalizeTotal ==
    Called =>
        /\ normalized[1].ok
        /\ DOMAIN normalized[1].value
              = {"entries", "session_id", "executor_type", "prompt", "summary"}
        /\ LET raw == SelectSeq(Entries, IsRawOutput)
               bad == SelectSeq(CallLines, Unparseable)
           IN  /\ Len(raw) = Len(bad)
               /\ \A i \in DOMAIN bad : Contains(raw[i].content, Trim(bad[i]))

C14_Witness ==
    /\ Called
    /\ call_logs = Join(<<TruncatedLine, UnknownLine>>, "\n")
    /\ normalized[1].ok
    /\ Len(Entries) = 2
    /\ IsRawOutput(Entries[1])

(* C15: the entries of a call are the contributions of its lines, and a     *)
(* line's contribution is bounded: none for a blank line, at most one for   *)
(* a non-blank line that is no assistant or user message, at most one per   *)
(* content item for an assistant or user message, none for a result line.   *)
(* The number of entries is at most the sum over the non-blank lines of     *)
(* max(1, number of content items).                                         *)
C15_LineContributionBound ==
    Called =>
        LET ls == CallLines
        IN  /\ Entries = Contributions(ls)
            /\ \A i \in DOMAIN ls :
                  LET text == ls[i]
                      n == Len(Contribution(text))
                  IN  /\ Trim(text) = "" => n = 0
                      /\ (Trim(text) # "" /\ ~IsMessageLine(text)) => n <= 1
                      /\ IsMessageLine(text) => n <= Len(ContentItems(ValueOf(text)))
                      /\ IsResultLine(text) => n = 0
            /\ Len(Entries) <= EntryBound(ls)

C15_Witness ==
    /\ Called
    /\ CallLines = <<ResultLine, AssistantToolLine>>
    /\ Len(Entries) = 2
    /\ EntryBound(CallLines) = 4

C17_FirstSessionIdWins ==
    Called =>
        LET ls == CallLines
            carriers == {i \in DOMAIN ls : CarriesSessionId(ls[i])}
            session_id == normalized[1].value.session_id
        IN  /\ (session_id = None) = (carriers = {})
            /\ carriers # {} =>
                  LET first == CHOOSE i \in carriers : \A j \in carriers : i <= j
                  IN  session_id = Some(SessionIdOf(ls[first]))

C17_Witness ==
    /\ Called
    /\ CallLines = <<RawLine, ResultLine, InitLine>>
    /\ normalized[1].value.session_id = Some("s3")

(* C18: result lines are dropped. No entry of a call comes from a result    *)
(* line, wherever the line stands in the log: no entry holds the value or   *)
(* the text of a result line, and the entries are those of the log with     *)
(* its result lines taken out. The log of an init line, an assistant text   *)
(* line, a result line and an unknown-type line gives exactly 3 entries.    *)
C18_ResultLinesDropped ==
    Called =>
        LET ls == CallLines
            kept == SelectSeq(ls, LAMBDA text : ~IsResultLine(text))
            without == normalize_logs("Claude", Join(kept, "\n"), worktree, call_files)
        IN  /\ Entries = without.value.entries
            /\ \A i \in DOMAIN ls : IsResultLine(ls[i]) =>
                  \A k \in DOMAIN Entries :
                     /\ Entries[k].metadata # Some(ValueOf(ls[i]))
                     /\ ~Contains(Entries[k].content, Trim(ls[i]))
            /\ ls = TestLogLines => Len(Entries) = 3

C18_Witness ==
    /\ Called
    /\ CallLines = TestLogLines
    /\ Len(Entries) = 3
    /\ Entries[3] = UnrecognizedJson(ValueOf(UnknownLine), UnknownLine)

(* C19, as the specification states it: every non-empty line that is not    *)
(* valid JSON yields exactly one entry, a SystemMessage whose content is    *)
(* the raw-output prefix followed by the text of the line and whose         *)
(* metadata is None.                                                        *)
C19_RawLineEntry ==
    Called =>
        LET ls == CallLines
        IN  \A i \in DOMAIN ls :
               (ls[i] # "" /\ from_str(Trim(ls[i])) = None) =>
                   Contribution(ls[i])
                     = <<NormalizedEntry(SystemMessage, "Raw output: " \o ls[i], None)>>

(* C19, amended: every line that is not blank (not empty once the white     *)
(* space around it is trimmed) and is not valid JSON yields exactly one     *)
(* entry, a SystemMessage whose content is the raw-output prefix followed   *)
(* by the trimmed text of the line and whose metadata is None; a line of    *)
(* white space yields no entry.                                             *)
C19_TrimmedRawLineEntry ==
    Called =>
        LET ls == CallLines
            bad == SelectSeq(ls, Unparseable)
        IN  /\ \A i \in DOMAIN ls :
                  /\ Unparseable(ls[i]) =>
                        Contribution(ls[i])
                          = <<NormalizedEntry(SystemMessage,
                                              "Raw output: " \o Trim(ls[i]), None)>>
                  /\ Trim(ls[i]) = "" => Contribution(ls[i]) = <<>>
            /\ Entries = Contributions(ls)
            /\ SelectSeq(Entries, IsRawOutput)
                  = [i \in DOMAIN bad |->
                        NormalizedEntry(SystemMessage, "Raw output: " \o Trim(bad[i]), None)]

C19_Witness ==
    /\ Called
    /\ CallLines = <<RawLine, TruncatedLine>>
    /\ Entries = <<NormalizedEntry(SystemMessage, "Raw output: oops", None),
                   NormalizedEntry(SystemMessage, "Raw output: " \o TruncatedLine, None)>>

(* C20: every JSON line that no arm processes and that is no result line    *)
(* (its type is missing, is not a string, or is none of assistant, user,    *)
(* system, result) yields exactly one entry: a SystemMessage marked as      *)
(* unrecognized JSON whose metadata is the whole value of the line. The     *)
(* unrecognized entries of a call are those of these lines, in order.       *)
C20_UnrecognizedLineEntry ==
    Called =>
        LET ls == CallLines
            unknown == SelectSeq(ls, Unrecognized)
        IN  /\ \A i \in DOMAIN ls : Unrecognized(ls[i]) =>
                  Contribution(ls[i])
                    = <<NormalizedEntry(SystemMessage,
                                        "Unrecognized JSON: " \o Trim(ls[i]),
                                        Some(ValueOf(ls[i])))>>
            /\ SelectSeq(Entries, IsUnrecognizedJson)
                  = [i \in DOMAIN unknown |->
                        NormalizedEntry(SystemMessage,
                                        "Unrecognized JSON: " \o Trim(unknown[i]),
                                        Some(ValueOf(unknown[i])))]

C20_Witness ==
    /\ Called
    /\ CallLines = <<NumericTypeLine, UnknownLine>>
    /\ Len(Entries) = 2
    /\ Entries[1].metadata = Some(JObj([type |-> JNum(7), session_id |-> JNum(8)]))
    /\ IsUnrecognizedJson(Entries[2])

----------------------------------------------------------------------------
(* C21: the entries of a call are in source order. The entries derived     *)
(* from line i lie, in one piece, right after the entries derived from the  *)
(* lines before i, so an entry of line i precedes every entry of a line     *)
(* j > i; the entries of a message line are those of its content items, in  *)
(* the order of the items, with no entry of another line between them.      *)
C21_SourceOrder ==
    Called =>
        /\ InOrderContiguous(LineParts, Entries)
        /\ \A i \in DOMAIN CallLines :
              IsMessageLine(CallLines[i]) =>
                  InOrderContiguous(ItemParts(CallLines[i]), LineParts[i])

\* a call on an init line followed by an assistant line whose text item and
\* tool use item give one entry each
C21_Witness ==
    /\ Called
    /\ CallLines = <<InitLine, AssistantToolLine>>
    /\ Len(Entries) = 3
    /\ Entries[1].entry_type = SystemMessage
    /\ Entries[2].entry_type = AssistantMessage
    /\ Entries[3].entry_type.type = "ToolUse"
    /\ Len(ItemParts(AssistantToolLine)) = 3

----------------------------------------------------------------------------
(* C22, as the specification states it: extract_action_type returns an      *)
(* ActionType for every tool name and input, and two tool names that differ *)
(* only in letter case give the same ActionType for the same input and      *)
(* worktree.                                                                *)
C22_CaseInsensitive ==
    /\ Classified => IsActionType(Invocation.action_type)
    /\ (Respelled /\ SameNameIgnoringCase(Earlier.tool_name, Invocation.tool_name)) =>
           Earlier.action_type = Invocation.action_type

(* C22, amended: extract_action_type returns an ActionType for every tool   *)
(* name and input; two spellings of a name the match knows give the same    *)
(* ActionType, and a name it does not know gives Other with the name as it  *)
(* was written, so two spellings of such a name give the same variant with  *)
(* descriptions that differ as the spellings do.                            *)
C22_CaseInsensitiveMatch ==
    /\ Classified => IsActionType(Invocation.action_type)
    /\ (Respelled /\ SameNameIgnoringCase(Earlier.tool_name, Invocation.tool_name)) =>
           IF IsKnownTool(Invocation.tool_name)
           THEN Earlier.action_type = Invocation.action_type
           ELSE /\ Earlier.action_type = Other("Tool: " \o Earlier.tool_name)
                /\ Invocation.action_type = Other("Tool: " \o Invocation.tool_name)

\* Read and READ on the same file_path are both a FileRead of the same path
C22_Witness ==
    /\ Respelled
    /\ Earlier.tool_name = "Read"
    /\ Invocation.tool_name = "READ"
    /\ Invocation.input = JObj([file_path |-> JStr("/tmp/wt/src/main.rs")])
    /\ worktree = "/tmp/wt"
    /\ Invocation.action_type = FileRead("src/main.rs")
    /\ Earlier.action_type = FileRead("src/main.rs")

----------------------------------------------------------------------------
(* C23: for a tool name the match knows, when every field the tool takes    *)
(* its value from (file_path for read; file_path, path for edit, write,     *)
(* multiedit; command; pattern; url; description, prompt; plan) is missing  *)
(* or is no string, extract_action_type returns Other with the generic      *)
(* description of the operation, never the tool's own variant; for a name   *)
(* the match does not know it returns Other with "Tool: " and the name.     *)
C23_DegradesToOther ==
    Classified =>
        IF IsKnownTool(Invocation.tool_name)
        THEN LacksRequired(KnownName(Invocation.tool_name), Invocation.input) =>
                 Invocation.action_type =
                     Other(GenericDescription(KnownName(Invocation.tool_name)))
        ELSE Invocation.action_type = Other("Tool: " \o Invocation.tool_name)

\* Edit with a numeric file_path and no path, after Task with the same input
C23_Witness ==
    /\ Classified
    /\ Respelled
    /\ Invocation.tool_name = "Edit"
    /\ Invocation.input = JObj([file_path |-> JNum(7)])
    /\ Invocation.action_type = Other("File write operation")
    /\ Earlier.tool_name = "Task"
    /\ Earlier.action_type = Other("Task creation")

----------------------------------------------------------------------------
(* C24, as the specification states it: for a todo-list tool invocation     *)
(* classified as Other, the summary holds one glyph line per todo of the    *)
(* todos list, in list order, with the todo's content and priority and the  *)
(* glyph of its status; with an empty list or no todos field the summary is *)
(* "Managing TODO list".                                                    *)
C24_OneLinePerTodo ==
    (Summarized /\ IsTodoTool(Invocation.tool_name)
        /\ Invocation.action_type.kind = "Other") =>
        Summary = TodoSummary(TodoList(Invocation.input))

(* C24, amended: the summary holds one glyph line per todo that has a       *)
(* string content, in list order; a todo without one gives no line; the     *)
(* glyph is the pending one when the status is missing or no string, the    *)
(* priority reads medium when it is missing or no string. The summary is    *)
(* "Managing TODO list" when no todo has a string content: the list is      *)
(* empty, the todos field is missing or is no list, or no todo has content. *)
C24_OneLinePerTodoWithContent ==
    (Summarized /\ IsTodoTool(Invocation.tool_name)
        /\ Invocation.action_type.kind = "Other") =>
        Summary = TodoSummary(SelectSeq(TodoList(Invocation.input),
                                        LAMBDA todo : HasString(todo, "content")))

\* TodoWrite with four todos of which two have a string content
C24_Witness ==
    /\ Summarized
    /\ Invocation.tool_name = "TodoWrite"
    /\ Invocation.input = SparseTodos
    /\ Invocation.action_type = Other("Tool: TodoWrite")
    /\ Summary = "TODO List:\n(memo) A (medium)\n(hourglass) C (medium)"

----------------------------------------------------------------------------
(* C25: make_path_relative returns a relative path unchanged; for an        *)
(* absolute path with the worktree path as a prefix by whole components it  *)
(* returns the remainder after the prefix; otherwise, when both paths       *)
(* canonicalize and the canonical worktree is a prefix of the canonical     *)
(* path, it returns the canonical remainder; in every other case, also when *)
(* a path cannot be canonicalized, it returns the path as given. What it    *)
(* returns is always the path given or a remainder that, joined to the      *)
(* worktree path as written or as canonicalized, gives the path as written  *)
(* or as canonicalized.                                                     *)
C25_RelativizeNeverCorrupts ==
    Relativized =>
        /\ CASE is_relative(PathGiven) -> PathReturned = PathGiven
             [] IsUnder(PathGiven, worktree) ->
                    IsRemainder(PathReturned, PathGiven, worktree)
             [] ~is_relative(PathGiven) /\ ~IsUnder(PathGiven, worktree)
                  /\ IsUnderCanonically(PathGiven, worktree, files) ->
                    IsRemainder(PathReturned, canonicalize(PathGiven, files)[1],
                                canonicalize(worktree, files)[1])
             [] OTHER -> PathReturned = PathGiven
        /\ \/ PathReturned = PathGiven
           \/ IsRemainder(PathReturned, PathGiven, worktree)
           \/ /\ canonicalize(PathGiven, files) # None
              /\ canonicalize(worktree, files) # None
              /\ IsRemainder(PathReturned, canonicalize(PathGiven, files)[1],
                             canonicalize(worktree, files)[1])

\* a path under the worktree only through the link /tmp: the canonical
\* remainder is returned
C25_Witness ==
    /\ Relativized
    /\ PathGiven = "/private/tmp/wt/a.rs"
    /\ worktree = "/tmp/wt"
    /\ files = TmpIsLink
    /\ ~IsUnder(PathGiven, worktree)
    /\ PathReturned = "a.rs"

----------------------------------------------------------------------------
(* C26: the launcher takes the primary command for the universal fallback,  *)
(* and so makes no retry, exactly when resolution ended at the universal    *)
(* fallback step: a command from an override, from the configuration file   *)
(* or from local detection is never taken for the fallback, whatever its    *)
(* text, and the universal fallback always is, with the resume flag and in  *)
(* the watchkill script as well.                                            *)
C26_FallbackMarkerExact ==
    Resolved => (is_fallback <=> EndedAtFallbackStep)

----------------------------------------------------------------------------
(* C27: the watchkill script is applied exactly in plan mode, and the       *)
(* fallback attempt keeps the mode and the wrapping of the primary one.     *)
(* Every command a launch hands to the shell is a watchkill script if and   *)
(* only if the executor is in plan mode and has no override; the command of *)
(* a second attempt is the universal fallback with the flags of the         *)
(* executor's mode, inside the script in plan mode (plan permission flag,   *)
(* no bypass flag) and bare in default mode (bypass flag, no plan flag),    *)
(* with the very flags of the primary command when that one was built.      *)
C27_WrapperExactlyInPlanMode ==
    \A i \in DOMAIN trace : trace[i].op = "spawn" =>
        LET c == trace[i].command
            agent == AgentCommand(c)
        IN  /\ IsScriptText(c) <=> (exec.use_plan_mode /\ exec.command = None)
            /\ trace[i].attempt = 2 =>
                 /\ IsScriptText(c) <=> exec.use_plan_mode
                 /\ StartsWith(agent, NPX_BASE \o " -")
                 /\ Contains(agent, "--permission-mode=plan") <=> exec.use_plan_mode
                 /\ Contains(agent, "--dangerously-skip-permissions")
                        <=> ~exec.use_plan_mode
                 /\ exec.command = None =>
                       \E base \in BaseCommands :
                          /\ StartsWith(AgentCommand(primary_command), base \o " -")
                          /\ FlagsOf(AgentCommand(primary_command), base)
                                 = FlagsOf(agent, NPX_BASE)

\* a plan mode launch whose primary script failed and whose fallback is a
\* script around the npx command with the plan flags
C27_Witness ==
    /\ exec.use_plan_mode
    /\ Len(SpawnAttempts) = 2
    /\ IsScriptText(SpawnAttempts[1].command)
    /\ IsScriptText(SpawnAttempts[2].command)
    /\ ~Contains(SpawnAttempts[1].command, "npx")
    /\ Contains(AgentCommand(SpawnAttempts[2].command), "--permission-mode=plan")

----------------------------------------------------------------------------
(* C28: the watchkill script relays the output of $command faithfully. The  *)
(* lines it has printed are at every moment a prefix of the lines $command  *)
(* has written, each unchanged and in order; once the script has exited     *)
(* they are all the lines of $command when none holds the sentinel phrase,  *)
(* and the lines up to the first one that holds it otherwise.               *)
C28_RelayFaithful ==
    /\ IsPrefix(relayed, produced)
    /\ wpc = "exited" =>
          IF SentinelLines = {}
          THEN relayed = produced
          ELSE relayed = SubSeq(produced, 1,
                                CHOOSE i \in SentinelLines : \A j \in SentinelLines : i <= j)
\* C29: a negative detection result is never cached. A call that begins
\* after another call's probe found no installation, and that finds no
\* configured path, probes again; when its probe finds an installation it
\* returns the command of that installation and not the universal fallback.
C29_NegativeNotCached ==
    \A a \in CallIds : \A b \in CallIds :
        (/\ Returning(b) /\ BeganAfter(b, a)
         /\ Probed(a) /\ ProbeFound(a) = None
         /\ FoundNoConfiguredPath(b))
        => /\ Probed(b)
           /\ ProbeFound(b) = detect_local_claude_code(calls[b].probe_env[1])
           /\ ProbeFound(b) # None =>
                 /\ CommandReturned(b) = CommandOf(ProbeFound(b)[1], calls[b].use_plan_mode)
                 /\ CommandReturned(b) # UniversalFallback(calls[b].use_plan_mode)

\* a call returned the universal fallback after a probe that found nothing,
\* an installation appeared, and a later call returned its command
C29_Witness ==
    \E a \in CallIds : \E b \in CallIds :
        /\ Returning(b) /\ BeganAfter(b, a)
        /\ Probed(a) /\ ProbeFound(a) = None
        /\ CommandReturned(a) = UniversalFallback(calls[a].use_plan_mode)
        /\ FoundNoConfiguredPath(b) /\ Probed(b) /\ ProbeFound(b) # None
        /\ CommandReturned(b) = CommandOf(ProbeFound(b)[1], calls[b].use_plan_mode)
        /\ env_changes > 0

\* C30: calls that run side by side race benignly on the memo. While the
\* environment stays the same every call returns the command one call alone
\* would return; the memo holds nothing or a path some probe found; a memo
\* that holds a path keeps it.
C30_BenignRace ==
    /\ [](/\ env_changes = 0 =>
               \A c \in CallIds :
                   Returning(c) =>
                       CommandReturned(c) = SequentialCommand(env, calls[c].use_plan_mode)
          /\ MemoHoldsPath =>
               \E c \in CallIds : Probed(c) /\ ProbeFound(c) = LOCAL_CLAUDE_CODE[1])
    /\ [][MemoHoldsPath => LOCAL_CLAUDE_CODE' = LOCAL_CLAUDE_CODE]_vars

\* two calls, neither begun after the other returned, both went through the
\* memo and the probe in one environment and both returned
C30_Witness ==
    /\ env_changes = 0
    /\ LOCAL_CLAUDE_CODE # None
    /\ \E a \in CallIds : \E b \in CallIds :
          /\ a # b
          /\ Returning(a) /\ Returning(b)
          /\ ~BeganAfter(a, b) /\ ~BeganAfter(b, a)
          /\ Probed(a) /\ Probed(b) /\ ProbeFound(a) # None

----------------------------------------------------------------------------
(* C31: a structured line with a known type tag whose substructure is       *)
(* absent (an assistant or user line with no message or with no content     *)
(* array, a system line whose subtype is missing or is not init) counts as  *)
(* not processed and yields exactly one unrecognized-JSON SystemMessage     *)
(* entry that carries the value of the line.                                *)
C31_AbsentSubstructureUnrecognized ==
    Called =>
        /\ \A i \in DOMAIN CallLines :
              LacksSubstructure(CallLines[i]) =>
                  /\ Len(LineParts[i]) = 1
                  /\ IsUnrecognizedJson(LineParts[i][1])
                  /\ LineParts[i][1].metadata = Some(ValueOf(CallLines[i]))
        /\ (Len(CallLines) = 1 /\ LacksSubstructure(CallLines[1])) =>
              /\ Len(Entries) = 1
              /\ IsUnrecognizedJson(Entries[1])

----------------------------------------------------------------------------
(* C32: the content walk of a message line. The entries derived from an     *)
(* assistant line are, in the order of the items, one AssistantMessage per   *)
(* text item with the item's text as content and one ToolUse per tool_use    *)
(* item with the item's name, the action type extract_action_type returns    *)
(* and the content generate_concise_content returns for that name, input     *)
(* and worktree; items of any other kind yield no entry and no               *)
(* unrecognized-JSON entry. From a user line only the text items yield       *)
(* entries, each a UserMessage.                                              *)
C32_ContentWalk ==
    Called =>
        \A i \in DOMAIN CallLines :
            (IsMessageLine(CallLines[i]) /\ HasContentArray(CallLines[i])) =>
                LET text == CallLines[i]
                    items == SelectSeq(JGet(JGet(ValueOf(text), "message")[1], "content")[1].a,
                                       LAMBDA item : YieldsEntry(text, item))
                    part == SubSeq(Entries, TotalLen(SubSeq(LineParts, 1, i - 1)) + 1,
                                            TotalLen(SubSeq(LineParts, 1, i)))
                IN  /\ Len(part) = Len(items)
                    /\ \A k \in DOMAIN items :
                          IF IsTextItem(items[k])
                          THEN IsMessageEntry(part[k],
                                              IF TypeTag(text) = Some("assistant")
                                              THEN "AssistantMessage" ELSE "UserMessage",
                                              items[k])
                          ELSE IsToolUseEntry(part[k], items[k])
                    /\ \A k \in DOMAIN part : ~IsUnrecognizedJson(part[k])

\* an assistant line with a text item, a tool_use item and an item of another
\* kind gave an AssistantMessage and a ToolUse and nothing else
C32_Witness ==
    /\ Called
    /\ CallLines = <<AssistantToolLine>>
    /\ Len(Entries) = 2
    /\ Entries[1].entry_type = AssistantMessage /\ Entries[1].content = "reading"
    /\ Entries[2].entry_type.type = "ToolUse" /\ Entries[2].entry_type.tool_name = "Read"
    /\ Entries[2].entry_type.action_type.kind = "FileRead"

----------------------------------------------------------------------------
(* C33: normalisation is monotone as output accumulates. When the text of   *)
(* a later call is the text of an earlier call, ended at a line boundary,    *)
(* followed by further whole lines, the entries of the earlier call are a    *)
(* prefix of the entries of the later call, and a session_id the earlier     *)
(* call had is the session_id of the later call.                             *)
C33_Monotone ==
    (FirstCalled /\ Called /\ ExtendsByWholeLines(FirstLogs, call_logs)) =>
        /\ IsPrefix(FirstEntries, Entries)
        /\ FirstSessionId # None => SessionId = FirstSessionId

(* C33, amended: the same for two calls that see the same file system; the  *)
(* session_id is kept whatever the file system does.                        *)
C33_MonotoneOnSameFiles ==
    (FirstCalled /\ Called /\ ExtendsByWholeLines(FirstLogs, call_logs)) =>
        /\ call_files = FirstFiles => IsPrefix(FirstEntries, Entries)
        /\ FirstSessionId # None => SessionId = FirstSessionId

\* a call on one line gave a raw entry and no session_id, two lines later a
\* call gave that entry first, then those of the new lines, and a session_id
C33_Witness ==
    /\ FirstCalled /\ Called
    /\ FirstLogs = RawLine \o "\n"
    /\ call_logs = RawLine \o "\n" \o AssistantToolLine \o "\n" \o InitLine \o "\n"
    /\ call_files = FirstFiles
    /\ Len(FirstEntries) = 1 /\ Len(Entries) = 4
    /\ Entries[1] = FirstEntries[1]
    /\ FirstSessionId = None /\ SessionId = Some("s1")

----------------------------------------------------------------------------
(* C34: session capture does not depend on what a line contributes. The     *)
(* session_id of a call is that of the first line that parses and has a      *)
(* string session_id, whatever its type tag and whether or not the line      *)
(* yields an entry (a result line, a message without content items); a line  *)
(* that does not parse never supplies it, even when its text holds a         *)
(* session_id.                                                               *)
C34_SessionCaptureIndependent ==
    Called =>
        /\ \A i \in DOMAIN CallLines :
              (/\ Supplies(CallLines[i])
               /\ \A j \in 1..(i - 1) : ~Supplies(CallLines[j]))
              => SessionId = Some(Supplied(CallLines[i]))
        /\ SessionId # None =>
              \E i \in DOMAIN CallLines :
                  /\ Supplies(CallLines[i])
                  /\ SessionId = Some(Supplied(CallLines[i]))
        /\ \A i \in DOMAIN CallLines :
              (Unparseable(CallLines[i]) /\ Contains(CallLines[i], "\"session_id\":\"s9\""))
              => SessionId # Some("s9")

\* a line cut short that holds a session_id in its text gave a raw entry and
\* no session_id; the result line after it gave the session_id and no entry
C34_Witness ==
    /\ Called
    /\ CallLines = <<TruncatedLine, ResultLine>>
    /\ Len(Entries) = 1 /\ IsRawOutput(Entries[1])
    /\ Contains(Entries[1].content, "session_id")
    /\ LineParts[2] = <<>>
    /\ SessionId = Some("s3")

====
